---- MODULE Spec2Model ----
(***************************************************************************)
(* A state-machine model of the slay discrete-event simulator:             *)
(*   core/src/engine.rs       Simulation (clock, event heap, dispatch)     *)
(*   core/src/network.rs      Link / EdgeConfig / canonical_key            *)
(*   core/src/components/*.rs Client, Server, LoadBalancer handlers        *)
(*   ui/src/app.rs            the frame loop that drives step()            *)
(*                                                                         *)
(* Units are the code's: virtual time in microseconds.  f32 quantities are *)
(* kept in fixed point: probabilities and jitter factors in percent,       *)
(* saturation_penalty and retry tokens in tenths.  Random draws are        *)
(* nondeterministic choices from the small sets named below.  Display-only *)
(* fields (arrival windows, snapshots, names) are not modelled.            *)
(***************************************************************************)
EXTENDS Integers, Sequences, FiniteSets, TLC

VARIABLES
    time,            \* Simulation.time
    events,          \* Simulation.events: the BinaryHeap's backing array
    clients,         \* Simulation.components, the Client entries
    servers,         \* Simulation.components, the Server entries
    lbs,             \* Simulation.components, the LoadBalancer entries
    links,           \* Simulation.links: canonical key -> Link
    success_count,   \* Simulation.success_count
    failure_count,   \* Simulation.failure_count
    latencies,       \* Simulation.latencies: ring of <<time, elapsed>>
    histogram,       \* Simulation.histogram: the recorded values
    frame,           \* SlayApp::update: [active, target, processed]
    seed,            \* Simulation.seed; None when the RNGs come from entropy
    hist             \* history (not program state): see HistInit

vars == <<time, events, clients, servers, lbs, links, success_count,
          failure_count, latencies, histogram, frame, seed, hist>>

-----------------------------------------------------------------------------
(* Bounds of the model *)

\* step() calls explored per run
MaxSteps == 12
\* driver operations (config changes, resets, frames) explored per run
MaxDriverOps == 1

\* lib.rs: pub const PROCESS_OVERHEAD_US
PROCESS_OVERHEAD_US == 2000
\* network.rs: EdgeConfig::default().latency_us
DEFAULT_LATENCY_US == 10000
\* engine.rs: the latency ring keeps 60 s
RING_WINDOW_US == 60000000
\* load_balancer.rs: LoadBalancer::new starts retry_token_balance at 10.0
INITIAL_TOKENS_TENTHS == 100
\* load_balancer.rs: one retry costs 1.0 token
RETRY_COST_TENTHS == 10

\* Option<NodeId>::None (the driver assigns ids from 1)
None == 0

-----------------------------------------------------------------------------
(* Random draws.  Each set stands for the range the code draws from. *)

\* rng.gen_range(0.95..1.05) of Client and Server, in percent
JitterPcts == {95, 104}
\* rng.gen::<f32>() in [0,1), in percent
UnitDraws == {0, 50}
\* a draw from an inclusive integer range 0..=n: its two ends
EndDraws == {"lo", "hi"}
\* rng.next_u32(): the salt of a request id
SaltDraws == {0}
\* rng.gen_range(0..len) of the Random strategy, reduced modulo len
IndexDraws == {0, 1}

NoDraw == [j |-> 95, u |-> 50, loss |-> 50, lj |-> "lo", rj |-> "lo",
           salt |-> 0, idx |-> 0]

-----------------------------------------------------------------------------
(* Small helpers *)

Max(a, b) == IF a > b THEN a ELSE b

\* u64::saturating_sub
SatSub(a, b) == IF a > b THEN a - b ELSE 0

Last(s) == s[Len(s)]
Front(s) == SubSeq(s, 1, Len(s) - 1)

Contains(s, x) == \E i \in 1..Len(s) : s[i] = x

RECURSIVE SeqFilter(_, _)
SeqFilter(s, keep) ==
    IF s = <<>> THEN <<>>
    ELSE IF Head(s) \in keep THEN <<Head(s)>> \o SeqFilter(Tail(s), keep)
         ELSE SeqFilter(Tail(s), keep)

\* HashMap::get(k).unwrap_or(d)
GetOr(f, k, d) == IF k \in DOMAIN f THEN f[k] ELSE d

\* HashMap::insert(k, v)
Put(f, k, v) == [x \in DOMAIN f \cup {k} |-> IF x = k THEN v ELSE f[x]]

\* HashMap::remove(k)
Del(f, k) == [x \in DOMAIN f \ {k} |-> f[x]]

EmptyMap == [x \in {} |-> 0]

-----------------------------------------------------------------------------
(* Events (engine.rs: EventType, Event, ScheduleCmd) *)

\* The payload of an event: EventType with the fields of all variants;
\* a variant leaves the fields it does not have at their defaults.
Arrival(rid, path, start_time, timeout) ==
    [type |-> "Arrival", request_id |-> rid, path |-> path,
     start_time |-> start_time, timeout |-> timeout, success |-> FALSE,
     generation_id |-> 0]

ProcessComplete(rid, success, start_time, path, timeout) ==
    [type |-> "ProcessComplete", request_id |-> rid, path |-> path,
     start_time |-> start_time, timeout |-> timeout, success |-> success,
     generation_id |-> 0]

Response(rid, path, start_time, success, timeout) ==
    [type |-> "Response", request_id |-> rid, path |-> path,
     start_time |-> start_time, timeout |-> timeout, success |-> success,
     generation_id |-> 0]

GenerateNext(gid) ==
    [type |-> "GenerateNext", request_id |-> <<0, 0, 0>>, path |-> <<>>,
     start_time |-> 0, timeout |-> 0, success |-> FALSE,
     generation_id |-> gid]

ScheduleCmd(delay, node_id, event_type) ==
    [delay |-> delay, node_id |-> node_id, event_type |-> event_type]

\* Event.  seq is a history tag (the number of the insertion that created
\* the event); no operator of the program reads it.
Event(t, node_id, event_type, seq) ==
    [time |-> t, node_id |-> node_id, event_type |-> event_type, seq |-> seq]

\* impl Ord for Event: cmp compares the time alone.
EventLe(a, b) == a.time <= b.time

\* Reverse<Event>: the order the heap sees.
ReverseLe(a, b) == EventLe(b, a)

-----------------------------------------------------------------------------
(* Simulation.events: std::collections::BinaryHeap<Reverse<Event>>.        *)
(* The backing Vec is 0-indexed; data[p + 1] is the element at position p. *)

Swap(data, p, q) ==
    [data EXCEPT ![p + 1] = data[q + 1], ![q + 1] = data[p + 1]]

\* A push that leaves the new element where it was appended
SiftUpNone(data, start, pos) == data

\* BinaryHeap::sift_up(start, pos)
RECURSIVE SiftUp(_, _, _)
SiftUp(data, start, pos) ==
    IF pos > start
    THEN LET parent == (pos - 1) \div 2
         IN  IF ReverseLe(data[pos + 1], data[parent + 1])
             THEN data
             ELSE SiftUp(Swap(data, pos, parent), start, parent)
    ELSE data

\* BinaryHeap::sift_down_to_bottom(0): the loop, then the trailing child
\* and the final sift_up(start, pos).
RECURSIVE SiftDownLoop(_, _, _)
SiftDownLoop(data, pos, child) ==
    LET end == Len(data)
    IN  IF child <= SatSub(end, 2)
        THEN LET c == IF ReverseLe(data[child + 1], data[child + 2])
                      THEN child + 1 ELSE child
             IN  SiftDownLoop(Swap(data, pos, c), c, 2 * c + 1)
        ELSE IF child = end - 1
             THEN SiftUp(Swap(data, pos, child), 0, child)
             ELSE SiftUp(data, 0, pos)

SiftDownToBottom(data) == SiftDownLoop(data, 0, 1)

\* BinaryHeap::push
HeapPush(data, e) == SiftUp(Append(data, e), 0, Len(data))

\* BinaryHeap::peek
HeapPeek(data) == data[1]

\* BinaryHeap::pop, the heap it leaves (the popped item is HeapPeek)
HeapPopRest(data) ==
    IF Len(data) = 1 THEN <<>>
    ELSE SiftDownToBottom([Front(data) EXCEPT ![1] = Last(data)])

-----------------------------------------------------------------------------
(* Links (network.rs) *)

EdgeConfig(latency_us, jitter_us, packet_loss_rate) ==
    [latency_us |-> latency_us, jitter_us |-> jitter_us,
     packet_loss_rate |-> packet_loss_rate]

\* An edge without latency, jitter or loss
ZeroEdge == EdgeConfig(0, 0, 0)

\* impl Default for EdgeConfig
DefaultEdge == EdgeConfig(DEFAULT_LATENCY_US, 0, 0)

\* impl Default for Link
DefaultLink == [min_to_max |-> DefaultEdge, max_to_min |-> DefaultEdge]

\* canonical_key
canonical_key(a, b) == IF a < b THEN <<a, b>> ELSE <<b, a>>

\* The configuration of the opposite direction
GetConfigOpposite(link, from, to) ==
    IF from < to THEN link.max_to_min ELSE link.min_to_max

\* Link::get_config
get_config(link, from, to) ==
    IF from < to THEN link.min_to_max ELSE link.max_to_min

-----------------------------------------------------------------------------
(* Client (components/client.rs) *)

ClientConfig(arrival_rate, timeout, generation_id) ==
    [arrival_rate |-> arrival_rate, timeout |-> timeout,
     generation_id |-> generation_id]

\* Client::new, then add_target
NewClient(config, target_id) ==
    [config |-> config, target_id |-> target_id, request_counter |-> 0,
     healthy |-> TRUE]

\* A request id made of the salt and the counter only
RequestIdWithoutOrigin(node_id, salt, counter) == <<0, salt, counter>>

\* The request id [node id : 32 | salt : 32 | counter : 64]: the three
\* fields are disjoint bit ranges, so the id is the triple.
RequestId(node_id, salt, counter) == <<node_id, salt, counter>>

\* An interval whose fallback for a rate that is not positive is 1 s
IntervalUsOneSecond(config) ==
    IF config.arrival_rate > 0 THEN 1000000 \div config.arrival_rate
    ELSE 1000000

\* The interval between two ticks, before jitter
IntervalUs(config) ==
    IF config.arrival_rate > 0 THEN 1000000 \div config.arrival_rate
    ELSE 1000000000

\* A tick that is ignored only when the Client is unhealthy
TickIgnoredWhenUnhealthy(c, ev) == ~c.healthy

\* on_event, EventType::GenerateNext: the tick is ignored when the Client
\* is unhealthy or the tick belongs to another generation
TickIgnored(c, ev) ==
    ~c.healthy \/ ev.generation_id # c.config.generation_id

\* impl Component for Client: on_event.  Returns the client after the event
\* and the commands.
ClientOnEvent(c, event, rnd) ==
    LET ev == event.event_type
    IN  IF ev.type = "GenerateNext"
        THEN IF TickIgnored(c, ev)
             THEN [comp |-> c, cmds |-> <<>>]
             ELSE LET interval_us == IntervalUs(c.config)
                      \* (interval_us as f64 * jitter) as u64, the product
                      \* taken in two parts to stay within 32 bits
                      next_delay_us ==
                          (interval_us \div 100) * rnd.j
                          + ((interval_us % 100) * rnd.j) \div 100
                      tick == ScheduleCmd(next_delay_us, event.node_id,
                                          GenerateNext(ev.generation_id))
                  IN  IF c.target_id # None
                      THEN LET counter == c.request_counter + 1
                               rid == RequestId(event.node_id, rnd.salt, counter)
                           IN  [comp |-> [c EXCEPT !.request_counter = counter],
                                cmds |-> <<tick,
                                           ScheduleCmd(0, c.target_id,
                                               Arrival(rid, <<event.node_id>>,
                                                       event.time,
                                                       c.config.timeout * 1000))>>]
                      ELSE [comp |-> c, cmds |-> <<tick>>]
        ELSE [comp |-> c, cmds |-> <<>>]

\* Client::apply_config with a config that deserializes
ClientApplyConfigResult(c, new_cfg, node_id) ==
    [comp |-> [c EXCEPT !.config = new_cfg],
     cmds |-> IF c.healthy
              THEN <<ScheduleCmd(0, node_id, GenerateNext(new_cfg.generation_id))>>
              ELSE <<>>]

-----------------------------------------------------------------------------
(* Server (components/server.rs) *)

ServerConfig(service_time, concurrency, backlog_limit, failure_probability, saturation_penalty) ==
    [service_time |-> service_time, concurrency |-> concurrency,
     backlog_limit |-> backlog_limit,
     failure_probability |-> failure_probability,
     saturation_penalty |-> saturation_penalty]

\* Server::new, then add_target
NewServer(config, next_hop) ==
    [config |-> config, active_threads |-> 0, queue |-> <<>>,
     next_hop |-> next_hop, errors |-> 0, healthy |-> TRUE]

\* A delay whose penalty grows with load_factor, not with its square
CalculateProcessingDelayLinear(j, config, threads) ==
    LET cc == config.concurrency * config.concurrency
    IN  (config.service_time * 10 * j
            * (10 * cc + threads * config.concurrency
                           * config.saturation_penalty))
        \div (10 * cc)

\* Server::calculate_processing_delay with load_factor = threads / concurrency:
\* service_time * 1000 * jitter * (1 + load_factor^2 * saturation_penalty),
\* jitter in percent and saturation_penalty in tenths.
CalculateProcessingDelay(j, config, threads) ==
    LET cc == config.concurrency * config.concurrency
    IN  (config.service_time * 10 * j
            * (10 * cc + threads * threads * config.saturation_penalty))
        \div (10 * cc)

\* A rejection that is not counted in errors
ServerRejectUncounted(s, ev) ==
    [comp |-> s,
     cmds |-> IF ev.path # <<>>
              THEN <<ScheduleCmd(0, Last(ev.path),
                        Response(ev.request_id, ev.path, ev.start_time, FALSE,
                                 ev.timeout))>>
              ELSE <<>>]

\* The failure Response a Server sends to the last node of the path
ServerReject(s, ev) ==
    [comp |-> [s EXCEPT !.errors = @ + 1],
     cmds |-> IF ev.path # <<>>
              THEN <<ScheduleCmd(0, Last(ev.path),
                        Response(ev.request_id, ev.path, ev.start_time, FALSE,
                                 ev.timeout))>>
              ELSE <<>>]

\* on_event, EventType::Arrival
ServerOnArrival(s, event, rnd) ==
    LET ev == event.event_type
        config == s.config
    IN  IF ~s.healthy THEN ServerReject(s, ev)
        ELSE IF config.failure_probability > 0
                /\ rnd.u < config.failure_probability
        THEN ServerReject(s, ev)
        ELSE IF s.active_threads < config.concurrency
        THEN LET threads == s.active_threads + 1
                 delay_us == CalculateProcessingDelay(rnd.j, config, threads)
             IN  [comp |-> [s EXCEPT !.active_threads = threads],
                  cmds |-> <<ScheduleCmd(delay_us, event.node_id,
                               ProcessComplete(ev.request_id, TRUE,
                                   ev.start_time, ev.path, ev.timeout))>>]
        ELSE IF Len(s.queue) >= config.backlog_limit
        THEN ServerReject(s, ev)
        ELSE [comp |-> [s EXCEPT !.queue =
                           Append(@, [request_id |-> ev.request_id,
                                      path |-> ev.path,
                                      start_time |-> ev.start_time,
                                      timeout |-> ev.timeout])],
              cmds |-> <<>>]

\* A Server that starts the newest queued request first
ServerOnProcessCompleteLifo(s, event, rnd) ==
    LET ev == event.event_type
        config == s.config
        outcome ==
            IF ev.success /\ s.next_hop # None
            THEN <<ScheduleCmd(0, s.next_hop,
                      Arrival(ev.request_id, Append(ev.path, event.node_id),
                              ev.start_time, ev.timeout))>>
            ELSE IF ev.path # <<>>
            THEN <<ScheduleCmd(0, Last(ev.path),
                      Response(ev.request_id, ev.path, ev.start_time,
                               ev.success, ev.timeout))>>
            ELSE <<>>
    IN  IF s.queue # <<>>
        THEN LET next == Last(s.queue)
                 delay_us == CalculateProcessingDelay(rnd.j, config,
                                                      s.active_threads)
             IN  [comp |-> [s EXCEPT !.queue = Front(@)],
                  cmds |-> outcome \o
                      <<ScheduleCmd(delay_us, event.node_id,
                          ProcessComplete(next.request_id, TRUE,
                              next.start_time, next.path, next.timeout))>>]
        ELSE [comp |-> [s EXCEPT !.active_threads = SatSub(@, 1)],
              cmds |-> outcome]

\* on_event, EventType::ProcessComplete
ServerOnProcessComplete(s, event, rnd) ==
    LET ev == event.event_type
        config == s.config
        outcome ==
            IF ev.success /\ s.next_hop # None
            THEN <<ScheduleCmd(0, s.next_hop,
                      Arrival(ev.request_id, Append(ev.path, event.node_id),
                              ev.start_time, ev.timeout))>>
            ELSE IF ev.path # <<>>
            THEN <<ScheduleCmd(0, Last(ev.path),
                      Response(ev.request_id, ev.path, ev.start_time,
                               ev.success, ev.timeout))>>
            ELSE <<>>
    IN  IF s.queue # <<>>
        THEN LET next == Head(s.queue)
                 delay_us == CalculateProcessingDelay(rnd.j, config,
                                                      s.active_threads)
             IN  [comp |-> [s EXCEPT !.queue = Tail(@)],
                  cmds |-> outcome \o
                      <<ScheduleCmd(delay_us, event.node_id,
                          ProcessComplete(next.request_id, TRUE,
                              next.start_time, next.path, next.timeout))>>]
        ELSE [comp |-> [s EXCEPT !.active_threads = SatSub(@, 1)],
              cmds |-> outcome]

\* A proxy that keeps the Response of its next hop to itself
ServerOnResponseAbsorbs(s, event) == [comp |-> s, cmds |-> <<>>]

\* on_event, EventType::Response (an intermediate hop)
ServerOnResponse(s, event) ==
    LET ev == event.event_type
    IN  IF ev.path # <<>> /\ Front(ev.path) # <<>>
        THEN [comp |-> s,
              cmds |-> <<ScheduleCmd(0, Last(Front(ev.path)),
                           Response(ev.request_id, Front(ev.path),
                                    ev.start_time, ev.success, ev.timeout))>>]
        ELSE [comp |-> s, cmds |-> <<>>]

\* impl Component for Server: on_event
ServerOnEvent(s, event, rnd) ==
    CASE event.event_type.type = "Arrival" -> ServerOnArrival(s, event, rnd)
      [] event.event_type.type = "ProcessComplete" ->
             ServerOnProcessComplete(s, event, rnd)
      [] event.event_type.type = "Response" -> ServerOnResponse(s, event)
      [] OTHER -> [comp |-> s, cmds |-> <<>>]

\* Server::apply_config with a config that deserializes
ServerApplyConfigResult(s, new_cfg) == [s EXCEPT !.config = new_cfg]

\* Server::reset_internal_stats
ServerResetInternalStats(s) ==
    [s EXCEPT !.errors = 0, !.queue = <<>>, !.active_threads = 0]

-----------------------------------------------------------------------------
(* LoadBalancer (components/load_balancer.rs) *)

LoadBalancerConfig(strategy, max_retries, retry_backoff_ms, retry_strategy, retry_budget_ratio, min_retry_rate, retry_budget_max_tokens) ==
    [strategy |-> strategy, max_retries |-> max_retries,
     retry_backoff_ms |-> retry_backoff_ms,
     retry_strategy |-> retry_strategy,
     retry_budget_ratio |-> retry_budget_ratio,
     min_retry_rate |-> min_retry_rate,
     retry_budget_max_tokens |-> retry_budget_max_tokens]

\* impl Default for LoadBalancerConfig (ratio 0.2 and 10.0 tokens, in tenths)
DefaultLoadBalancerConfig ==
    LoadBalancerConfig("RoundRobin", 2, 50, "Constant", 2, 10, 100)

\* LoadBalancer::new, then the config the driver gives it and add_target
NewLoadBalancer(config, targets) ==
    [config |-> config, targets |-> targets, next_rr_idx |-> 0,
     active_loads |-> EmptyMap, is_healthy |-> TRUE,
     state_table |-> EmptyMap, in_flight_retries |-> EmptyMap,
     total_retries |-> 0, retry_token_balance |-> INITIAL_TOKENS_TENTHS]

\* An inspector for which a node it does not know is healthy
IsNodeHealthyOrUnknown(health_map, id) == GetOr(health_map, id, TRUE)

\* StaticInspector::is_node_healthy
is_node_healthy(health_map, id) == GetOr(health_map, id, FALSE)

\* A filter that looks at the health only
EligibleIfHealthy(health_map, exclusions, id) ==
    is_node_healthy(health_map, id)

\* select_target: the filter of the targets
Eligible(health_map, exclusions, id) ==
    is_node_healthy(health_map, id) /\ ~Contains(exclusions, id)

\* The last target of minimal load, in the order of the list
RECURSIVE MinByLoadLast(_, _)
MinByLoadLast(ts, loads) ==
    IF Len(ts) = 1 THEN Head(ts)
    ELSE LET rest == MinByLoadLast(Tail(ts), loads)
         IN  IF GetOr(loads, Head(ts), 0) < GetOr(loads, rest, 0)
             THEN Head(ts) ELSE rest

\* The first target of minimal load, in the order of the list (min_by_key)
RECURSIVE MinByLoad(_, _)
MinByLoad(ts, loads) ==
    IF Len(ts) = 1 THEN Head(ts)
    ELSE LET rest == MinByLoad(Tail(ts), loads)
         IN  IF GetOr(loads, Head(ts), 0) <= GetOr(loads, rest, 0)
             THEN Head(ts) ELSE rest

\* A round robin that stays on the index it has just used
NextRRIdxStuck(idx, n) == idx

\* select_target, RoundRobin: next_rr_idx after the target at idx is chosen
NextRRIdx(idx, n) == (idx + 1) % n

\* LoadBalancer::select_target.  Returns the target (None when there is
\* none) and next_rr_idx after the call.
select_target(lb, strategy, health_map, exclusions, rnd) ==
    LET healthy_targets ==
            SeqFilter(lb.targets,
                      {id \in {lb.targets[i] : i \in 1..Len(lb.targets)} :
                           Eligible(health_map, exclusions, id)})
        n == Len(lb.targets)
    IN  IF healthy_targets = <<>>
        THEN [target |-> None, next_rr_idx |-> lb.next_rr_idx]
        ELSE CASE strategy = "Random" ->
                    [target |-> healthy_targets[(rnd.idx % Len(healthy_targets)) + 1],
                     next_rr_idx |-> lb.next_rr_idx]
               [] strategy = "RoundRobin" ->
                    LET hits == {i \in 0..(n - 1) :
                                    Contains(healthy_targets,
                                        lb.targets[((lb.next_rr_idx + i) % n) + 1])}
                        i == CHOOSE k \in hits : \A m \in hits : k <= m
                        idx == (lb.next_rr_idx + i) % n
                    IN  [target |-> lb.targets[idx + 1],
                         next_rr_idx |-> NextRRIdx(idx, n)]
               [] OTHER ->
                    [target |-> MinByLoad(healthy_targets, lb.active_loads),
                     next_rr_idx |-> lb.next_rr_idx]

\* A rejection that takes the last hop off the path, as the forwarding of
\* a Response does
LBRejectPoppedPath(lb, ev) ==
    [comp |-> lb,
     cmds |-> IF ev.path # <<>>
              THEN <<ScheduleCmd(0, Last(ev.path),
                        Response(ev.request_id, Front(ev.path), ev.start_time,
                                 FALSE, ev.timeout))>>
              ELSE <<>>]

\* The failure Response an LB sends upstream without forwarding
LBReject(lb, ev) ==
    [comp |-> lb,
     cmds |-> IF ev.path # <<>>
              THEN <<ScheduleCmd(0, Last(ev.path),
                        Response(ev.request_id, ev.path, ev.start_time, FALSE,
                                 ev.timeout))>>
              ELSE <<>>]

\* The refill of the retry budget at an Arrival
Refill(lb) ==
    LET added == lb.retry_token_balance + lb.config.retry_budget_ratio
    IN  IF added > lb.config.retry_budget_max_tokens
        THEN lb.config.retry_budget_max_tokens
        ELSE added

\* on_event, EventType::Arrival
LBOnArrival(lb0, event, health_map, rnd) ==
    LET ev == event.event_type
        lb == [lb0 EXCEPT !.retry_token_balance = Refill(lb0)]
    IN  IF ~lb.is_healthy THEN LBReject(lb, ev)
        ELSE LET sel == select_target(lb, lb.config.strategy, health_map,
                                      <<>>, rnd)
                 target_id == sel.target
             IN  IF target_id # None
                 THEN [comp |-> [lb EXCEPT
                          !.next_rr_idx = sel.next_rr_idx,
                          !.active_loads =
                              Put(@, target_id, GetOr(@, target_id, 0) + 1),
                          !.state_table = Put(@, ev.request_id, target_id)],
                       cmds |-> <<ScheduleCmd(PROCESS_OVERHEAD_US, target_id,
                                    Arrival(ev.request_id,
                                            Append(ev.path, event.node_id),
                                            ev.start_time, ev.timeout))>>]
                 ELSE LBReject(lb, ev)

\* The delay of a retry: retry_backoff_ms * 1000 plus a jitter drawn from
\* 0..=max(delay / 10, 1)
RetryDelay(config, rnd) ==
    LET delay_us == config.retry_backoff_ms * 1000
        jitter == IF rnd.rj = "hi" THEN Max(delay_us \div 10, 1) ELSE 0
    IN  delay_us + jitter

\* A retry condition that counts the attempt about to be made
CanRetryOffByOne(retry_state, config, balance) ==
    retry_state.retry_count + 1 < config.max_retries
    /\ balance >= RETRY_COST_TENTHS

\* A retry condition that looks at the budget only
CanRetryAnyCount(retry_state, config, balance) ==
    balance >= RETRY_COST_TENTHS

\* on_event, EventType::Response: the request may be retried when it has
\* been retried fewer than max_retries times and one token is left
CanRetry(retry_state, config, balance) ==
    LET has_budget == balance >= RETRY_COST_TENTHS
    IN  retry_state.retry_count < config.max_retries /\ has_budget

\* A forward that sends the Response to the previous hop without taking
\* the LoadBalancer off the path
LBForwardUpKeepsPath(lb, ev) ==
    LET path == IF ev.path = <<>> THEN <<>> ELSE Front(ev.path)
    IN  [comp |-> lb,
         cmds |-> IF path # <<>>
                  THEN <<ScheduleCmd(PROCESS_OVERHEAD_US, Last(path),
                            Response(ev.request_id, ev.path, ev.start_time,
                                     ev.success, ev.timeout))>>
                  ELSE <<>>]

\* on_event, EventType::Response: the part after the cleanup, shared by
\* every path that returns the Response up the stack
LBForwardUp(lb, ev) ==
    LET path == IF ev.path = <<>> THEN <<>> ELSE Front(ev.path)
    IN  [comp |-> lb,
         cmds |-> IF path # <<>>
                  THEN <<ScheduleCmd(PROCESS_OVERHEAD_US, Last(path),
                            Response(ev.request_id, path, ev.start_time,
                                     ev.success, ev.timeout))>>
                  ELSE <<>>]

\* on_event, EventType::Response
LBOnResponse(lb0, event, health_map, rnd) ==
    LET ev == event.event_type
        rid == ev.request_id
    IN  IF rid \notin DOMAIN lb0.state_table THEN LBForwardUp(lb0, ev)
        ELSE
        LET server_id == lb0.state_table[rid]
            lb1 == [lb0 EXCEPT
                       !.state_table = Del(@, rid),
                       !.active_loads =
                           IF server_id \in DOMAIN @
                           THEN [@ EXCEPT ![server_id] = SatSub(@, 1)]
                           ELSE @]
            \* both branches remove the retry state; a retry puts it back
            lb2 == [lb1 EXCEPT !.in_flight_retries = Del(@, rid)]
        IN  IF ev.success THEN LBForwardUp(lb2, ev)
            ELSE
            LET config == lb1.config
                retry_state == GetOr(lb1.in_flight_retries, rid,
                                     [retry_count |-> 0,
                                      failed_targets |-> <<>>])
            IN  IF CanRetry(retry_state, config, lb1.retry_token_balance)
                THEN LET failed == Append(retry_state.failed_targets, server_id)
                         sel == select_target(lb2, config.strategy, health_map,
                                              failed, rnd)
                         new_target == sel.target
                     IN  IF new_target # None
                         THEN [comp |-> [lb2 EXCEPT
                                  !.next_rr_idx = sel.next_rr_idx,
                                  !.retry_token_balance = @ - RETRY_COST_TENTHS,
                                  !.in_flight_retries =
                                      Put(@, rid,
                                          [retry_count |->
                                               retry_state.retry_count + 1,
                                           failed_targets |-> failed]),
                                  !.total_retries = @ + 1,
                                  !.active_loads =
                                      Put(@, new_target,
                                          GetOr(@, new_target, 0) + 1),
                                  !.state_table = Put(@, rid, new_target)],
                               cmds |-> <<ScheduleCmd(RetryDelay(config, rnd),
                                            new_target,
                                            Arrival(rid, ev.path, ev.start_time,
                                                    ev.timeout))>>]
                         ELSE LBForwardUp(lb2, ev)
                ELSE LBForwardUp(lb2, ev)

\* An on_event that earns budget for every event it handles, the Responses
\* to its own attempts included
LBOnEventSelfFunding(lb, event, health_map, rnd) ==
    CASE event.event_type.type = "Arrival" ->
             LBOnArrival(lb, event, health_map, rnd)
      [] event.event_type.type = "Response" ->
             LBOnResponse([lb EXCEPT !.retry_token_balance = Refill(lb)],
                          event, health_map, rnd)
      [] OTHER -> [comp |-> lb, cmds |-> <<>>]

\* impl Component for LoadBalancer: on_event
LBOnEvent(lb, event, health_map, rnd) ==
    CASE event.event_type.type = "Arrival" ->
             LBOnArrival(lb, event, health_map, rnd)
      [] event.event_type.type = "Response" ->
             LBOnResponse(lb, event, health_map, rnd)
      [] OTHER -> [comp |-> lb, cmds |-> <<>>]

\* LoadBalancer::apply_config with a config that deserializes
LBApplyConfigResult(lb, new_cfg) == [lb EXCEPT !.config = new_cfg]

\* LoadBalancer::reset_internal_stats
LBResetInternalStats(lb) ==
    [lb EXCEPT !.active_loads = EmptyMap, !.state_table = EmptyMap,
               !.in_flight_retries = EmptyMap, !.total_retries = 0]

-----------------------------------------------------------------------------
(* Simulation (engine.rs) *)

NodeIds == DOMAIN clients \cup DOMAIN servers \cup DOMAIN lbs

\* step(): the health snapshot, comp.is_healthy() of every component
HealthBuffer ==
    [id \in NodeIds |->
        IF id \in DOMAIN clients THEN clients[id].healthy
        ELSE IF id \in DOMAIN servers THEN servers[id].healthy
        ELSE lbs[id].is_healthy]

\* step(): comp.on_event of the component the event is for; an event for a
\* node that is not a component yields no commands.
OnEvent(event, health_map, rnd) ==
    LET id == event.node_id
    IN  IF id \in DOMAIN clients THEN ClientOnEvent(clients[id], event, rnd)
        ELSE IF id \in DOMAIN servers
        THEN ServerOnEvent(servers[id], event, rnd)
        ELSE IF id \in DOMAIN lbs
        THEN LBOnEvent(lbs[id], event, health_map, rnd)
        ELSE [comp |-> None, cmds |-> <<>>]

\* Simulation::schedule.  q is [events, next_seq]: the heap and the number
\* of insertions so far (history).
Schedule(q, t, node_id, event_type) ==
    [events |-> HeapPush(q.events, Event(t, node_id, event_type, q.next_seq)),
     next_seq |-> q.next_seq + 1]

\* A drop decided by the draw alone, the bound included
DroppedInclusive(edge, rnd) ==
    rnd.loss <= edge.packet_loss_rate

\* step(): whether the dispatcher drops a command on this edge
Dropped(edge, rnd) ==
    edge.packet_loss_rate > 0 /\ rnd.loss < edge.packet_loss_rate

\* step(): the jitter drawn for an edge, rng.gen_range(0..=jitter_us)
EdgeJitter(edge, rnd) ==
    IF edge.jitter_us > 0
    THEN (IF rnd.lj = "hi" THEN edge.jitter_us ELSE 0)
    ELSE 0

\* step(): a command that is not dropped is scheduled at
\* time + delay + latency_us + jitter.  acc carries the heap, the links,
\* failure_count and, as history, next_seq and the request ids of the
\* commands dropped in this step; lks is the link table after or_insert.
DeliverCmd(acc, lks, edge, cmd, now, rnd) ==
    LET q == Schedule(acc,
                      now + cmd.delay + edge.latency_us + EdgeJitter(edge, rnd),
                      cmd.node_id, cmd.event_type)
    IN  [acc EXCEPT !.links = lks, !.events = q.events,
                    !.next_seq = q.next_seq]

\* A drop that is not counted as a failure
DropCmdUncounted(acc, lks, edge, cmd, now, rnd) ==
    [acc EXCEPT !.links = lks,
                !.dropped = Append(@, cmd.event_type.request_id)]

\* A drop that is counted and nevertheless scheduled
DropCmdAndDeliver(acc, lks, edge, cmd, now, rnd) ==
    DeliverCmd([acc EXCEPT !.failure_count = @ + 1,
                           !.dropped = Append(@, cmd.event_type.request_id)],
               lks, edge, cmd, now, rnd)

\* step(): a dropped command is not scheduled and counts as one failure
DropCmd(acc, lks, edge, cmd, now, rnd) ==
    [acc EXCEPT !.links = lks,
                !.failure_count = @ + 1,
                !.dropped = Append(@, cmd.event_type.request_id)]

\* step(): one turn of the loop over the handler's commands
DispatchCmd(acc, cmd, node_id, now, rnd) ==
    IF cmd.event_type.type \in {"Arrival", "Response"} /\ cmd.node_id # node_id
    THEN LET key == canonical_key(node_id, cmd.node_id)
             lks == IF key \in DOMAIN acc.links THEN acc.links
                    ELSE Put(acc.links, key, DefaultLink)
             edge == get_config(lks[key], node_id, cmd.node_id)
         IN  IF Dropped(edge, rnd)
             THEN DropCmd(acc, lks, edge, cmd, now, rnd)
             ELSE DeliverCmd(acc, lks, edge, cmd, now, rnd)
    ELSE LET q == Schedule(acc, now + cmd.delay, cmd.node_id, cmd.event_type)
         IN  [acc EXCEPT !.events = q.events, !.next_seq = q.next_seq]

RECURSIVE DispatchCmds(_, _, _, _, _)
DispatchCmds(acc, cmds, node_id, now, rnd) ==
    IF cmds = <<>> THEN acc
    ELSE DispatchCmds(DispatchCmd(acc, Head(cmds), node_id, now, rnd),
                      Tail(cmds), node_id, now, rnd)

\* An accounting that looks at the success flag before the timeout
AccountingSuccessFirst(event) ==
    LET ev == event.event_type
        total_time_us == SatSub(event.time, ev.start_time)
    IN  IF ev.type = "Response" /\ Len(ev.path) = 1
        THEN IF ev.success THEN "success"
             ELSE IF total_time_us > ev.timeout THEN "timeout"
             ELSE "failure"
        ELSE "none"

\* step(): the accounting of a popped event; "none" unless it is a
\* Response whose path has length 1.
Accounting(event) ==
    LET ev == event.event_type
        total_time_us == SatSub(event.time, ev.start_time)
    IN  IF ev.type = "Response" /\ Len(ev.path) = 1
        THEN IF total_time_us > ev.timeout THEN "timeout"
             ELSE IF ev.success THEN "success"
             ELSE "failure"
        ELSE "none"

\* step(): the ring after push_back and the trimming of entries older
\* than 60 s
RECURSIVE TrimRing(_, _)
TrimRing(ring, cutoff) ==
    IF ring # <<>> /\ Head(ring)[1] < cutoff
    THEN TrimRing(Tail(ring), cutoff)
    ELSE ring

\* The draws that can matter for the event about to be dispatched, as one
\* set of values per draw; the others stay at a fixed value (they are not
\* read).
DrawSets(event) ==
    LET id == event.node_id
        ty == event.event_type.type
        keys == {k \in DOMAIN links : k[1] = id \/ k[2] = id}
        lossy == \E k \in keys :
                    \/ links[k].min_to_max.packet_loss_rate > 0
                    \/ links[k].max_to_min.packet_loss_rate > 0
        jittery == \E k \in keys :
                    \/ links[k].min_to_max.jitter_us > 0
                    \/ links[k].max_to_min.jitter_us > 0
    IN  [j |-> IF (id \in DOMAIN clients /\ ty = "GenerateNext")
                  \/ (id \in DOMAIN servers /\ ty \in {"Arrival", "ProcessComplete"})
               THEN JitterPcts ELSE {NoDraw.j},
         u |-> IF id \in DOMAIN servers /\ ty = "Arrival"
               THEN UnitDraws ELSE {NoDraw.u},
         loss |-> IF lossy THEN UnitDraws ELSE {NoDraw.loss},
         lj |-> IF jittery THEN EndDraws ELSE {NoDraw.lj},
         rj |-> IF id \in DOMAIN lbs /\ ty = "Response"
                THEN EndDraws ELSE {NoDraw.rj},
         salt |-> IF id \in DOMAIN clients /\ ty = "GenerateNext"
                  THEN SaltDraws ELSE {NoDraw.salt},
         idx |-> IF id \in DOMAIN lbs THEN IndexDraws ELSE {NoDraw.idx}]

\* RNGs from entropy (StdRng::from_entropy): any value of each draw
DrawsFor(event) ==
    LET d == DrawSets(event)
    IN  [j : d.j, u : d.u, loss : d.loss, lj : d.lj, rj : d.rj,
         salt : d.salt, idx : d.idx]

\* The value a seeded stream yields: a function of the seed, of the RNG's
\* owner (0 for Simulation.rng, the node id for a component's rng) and of
\* the position in the run, here the number of step() calls so far
Stream(owner) == seed + owner + hist.steps

\* The element of a set of numbers that a stream value selects
PickInt(S, k) ==
    CHOOSE x \in S : Cardinality({y \in S : y < x}) = k % Cardinality(S)

\* The element of a subset of EndDraws that a stream value selects
PickEnd(S, k) ==
    IF Cardinality(S) = 1 THEN CHOOSE x \in S : TRUE
    ELSE IF k % 2 = 0 THEN "lo" ELSE "hi"

\* Simulation::new(seed): Simulation.rng is seeded, add_component seeds
\* the rng of a Client and of a Server (set_seed); LoadBalancer has no
\* set_seed and keeps the rng LoadBalancer::new took from entropy
SeededDrawsFor(event) ==
    LET d == DrawSets(event)
        id == event.node_id
    IN  [j : {PickInt(d.j, Stream(id))},
         u : {PickInt(d.u, Stream(id))},
         loss : {PickInt(d.loss, Stream(0))},
         lj : {PickEnd(d.lj, Stream(0))},
         rj : d.rj,
         salt : {PickInt(d.salt, Stream(id))},
         idx : d.idx]

\* The draws a step() can make for the event it pops
Draws(event) ==
    IF seed = None THEN DrawsFor(event) ELSE SeededDrawsFor(event)

\* History kept beside the program state:
\*   steps, ops    the step() calls and driver operations so far (bounds)
\*   next_seq      the number of insertions into the heap
\*   terminal      Responses of path length 1 dispatched since reset_stats
\*   drops         commands dropped by packet loss since reset_stats
\*   counted       request id -> increments of success_count + failure_count
\*   responded     <<lb, rid>>: the LB has been given a Response for rid
\*   first_failed  <<lb, rid>>: the first such Response was a failure
\*   forwarded     <<lb, target>> -> Arrivals the LB's handler emitted
\*   attempts      <<lb, rid>> -> the targets the LB sent rid to, in order
\*   arrivals      lb -> Arrival events the LB has handled
\*   emitted       the request ids of the Arrivals Clients have emitted
\*   answered      the request ids whose Response of path length 1 has been
\*                 dispatched to the node the id names as its origin
\*   removed       the nodes remove_node was called for
\*   last          what the last action did
HistInit(n) ==
    [steps |-> 0, ops |-> 0, next_seq |-> n, terminal |-> 0, drops |-> 0,
     counted |-> EmptyMap, responded |-> {}, first_failed |-> {},
     forwarded |-> EmptyMap, attempts |-> EmptyMap, arrivals |-> EmptyMap,
     emitted |-> {}, answered |-> {}, removed |-> {},
     last |-> [op |-> "init", event |-> None, accounting |-> "none",
               cmds |-> <<>>, dropped |-> <<>>]]

RECURSIVE CountAll(_, _)
CountAll(counted, rids) ==
    IF rids = <<>> THEN counted
    ELSE CountAll(Put(counted, Head(rids), GetOr(counted, Head(rids), 0) + 1),
                  Tail(rids))

\* Simulation::step with the draws rnd, for a non-empty heap: the values of
\* the program's variables after the call (and, for the history, what the
\* call did)
StepNext(rnd) ==
    LET event == HeapPeek(events)
        now == event.time
        node_id == event.node_id
        acct == Accounting(event)
        total_time_us == SatSub(now, event.event_type.start_time)
        res == OnEvent(event, HealthBuffer, rnd)
        acc0 == [events |-> HeapPopRest(events), links |-> links,
                 failure_count |-> failure_count
                     + (IF acct \in {"timeout", "failure"} THEN 1 ELSE 0),
                 next_seq |-> hist.next_seq, dropped |-> <<>>]
        acc == DispatchCmds(acc0, res.cmds, node_id, now, rnd)
    IN  [time |-> now,
         events |-> acc.events,
         links |-> acc.links,
         failure_count |-> acc.failure_count,
         success_count |-> success_count + (IF acct = "success" THEN 1 ELSE 0),
         latencies |-> IF acct = "success"
                       THEN TrimRing(Append(latencies, <<now, total_time_us>>),
                                     SatSub(now, RING_WINDOW_US))
                       ELSE latencies,
         histogram |-> IF acct = "success"
                       THEN Append(histogram, total_time_us)
                       ELSE histogram,
         clients |-> IF node_id \in DOMAIN clients
                     THEN [clients EXCEPT ![node_id] = res.comp] ELSE clients,
         servers |-> IF node_id \in DOMAIN servers
                     THEN [servers EXCEPT ![node_id] = res.comp] ELSE servers,
         lbs |-> IF node_id \in DOMAIN lbs
                 THEN [lbs EXCEPT ![node_id] = res.comp] ELSE lbs,
         accounting |-> acct, cmds |-> res.cmds, dropped |-> acc.dropped,
         next_seq |-> acc.next_seq]

\* History: the Arrivals an LB's handler emitted, counted per <<lb, target>>
RECURSIVE CountForwarded(_, _, _)
CountForwarded(forwarded, lb, cmds) ==
    IF cmds = <<>> THEN forwarded
    ELSE LET c == Head(cmds)
             k == <<lb, c.node_id>>
         IN  CountForwarded(
                 IF c.event_type.type = "Arrival"
                 THEN Put(forwarded, k, GetOr(forwarded, k, 0) + 1)
                 ELSE forwarded,
                 lb, Tail(cmds))

\* Simulation::step with the draws rnd: the transition
StepWith(rnd) ==
    \E n \in {StepNext(rnd)} :
      LET event == HeapPeek(events)
          ev == event.event_type
          counted0 == IF n.accounting = "none" THEN <<>>
                      ELSE <<ev.request_id>>
          at_lb == event.node_id \in DOMAIN lbs
          key == <<event.node_id, ev.request_id>>
          first_response == at_lb /\ ev.type = "Response"
                            /\ key \notin hist.responded
      IN  /\ time' = n.time
          /\ events' = n.events
          /\ links' = n.links
          /\ failure_count' = n.failure_count
          /\ success_count' = n.success_count
          /\ latencies' = n.latencies
          /\ histogram' = n.histogram
          /\ clients' = n.clients
          /\ servers' = n.servers
          /\ lbs' = n.lbs
          /\ hist' = [hist EXCEPT
                         !.steps = @ + 1,
                         !.next_seq = n.next_seq,
                         !.terminal = @ + (IF ev.type = "Response"
                                              /\ Len(ev.path) = 1
                                           THEN 1 ELSE 0),
                         !.drops = @ + Len(n.dropped),
                         !.counted = CountAll(@, counted0 \o n.dropped),
                         !.responded = IF first_response
                                       THEN @ \cup {key} ELSE @,
                         !.first_failed = IF first_response /\ ~ev.success
                                          THEN @ \cup {key} ELSE @,
                         !.forwarded = IF at_lb
                                       THEN CountForwarded(@, event.node_id,
                                                           n.cmds)
                                       ELSE @,
                         !.attempts =
                             IF at_lb /\ n.cmds # <<>>
                                /\ n.cmds[1].event_type.type = "Arrival"
                             THEN Put(@, key,
                                      Append(GetOr(@, key, <<>>),
                                             n.cmds[1].node_id))
                             ELSE @,
                         !.arrivals =
                             IF at_lb /\ ev.type = "Arrival"
                             THEN Put(@, event.node_id,
                                      GetOr(@, event.node_id, 0) + 1)
                             ELSE @,
                         !.emitted =
                             IF event.node_id \in DOMAIN clients
                             THEN @ \cup {n.cmds[i].event_type.request_id :
                                     i \in {k \in 1..Len(n.cmds) :
                                        n.cmds[k].event_type.type = "Arrival"}}
                             ELSE @,
                         !.answered =
                             IF ev.type = "Response" /\ Len(ev.path) = 1
                                /\ event.node_id = ev.request_id[1]
                             THEN @ \cup {ev.request_id}
                             ELSE @,
                         !.last = [op |-> "step", event |-> event,
                                   accounting |-> n.accounting,
                                   cmds |-> n.cmds,
                                   dropped |-> n.dropped]]

\* Simulation::step called by a test or a library user (outside a frame)
Step ==
    /\ ~frame.active
    /\ events # <<>>
    /\ hist.steps < MaxSteps
    /\ \E rnd \in Draws(HeapPeek(events)) : StepWith(rnd)
    /\ UNCHANGED <<frame, seed>>

\* No Client is healthy: every GenerateNext is ignored from here on, and
\* the queue can only drain
LoadStopped == \A id \in DOMAIN clients : ~clients[id].healthy

\* Simulation::step called on after the bound on steps, once the load has
\* stopped: the calls that drain the queue
StepDrain ==
    /\ ~frame.active
    /\ events # <<>>
    /\ hist.steps >= MaxSteps
    /\ LoadStopped
    /\ \E rnd \in Draws(HeapPeek(events)) : StepWith(rnd)
    /\ UNCHANGED <<frame, seed>>

-----------------------------------------------------------------------------
(* The driver (ui/src/app.rs, ui/src/inspector.rs) *)

\* The virtual time a frame asks for: virtual_dt of SlayApp::update
FrameDts == {15000}

\* A driver that schedules each command at its delay, not at time + delay
RECURSIVE ScheduleAllAbsolute(_, _)
ScheduleAllAbsolute(q, cmds) ==
    IF cmds = <<>> THEN q
    ELSE ScheduleAllAbsolute(Schedule(q, Head(cmds).delay, Head(cmds).node_id,
                                      Head(cmds).event_type),
                             Tail(cmds))

\* Schedule the commands an apply_config returned, each at time + delay
RECURSIVE ScheduleAll(_, _)
ScheduleAll(q, cmds) ==
    IF cmds = <<>> THEN q
    ELSE ScheduleAll(Schedule(q, time + Head(cmds).delay, Head(cmds).node_id,
                              Head(cmds).event_type),
                     Tail(cmds))

DriverOp(name) ==
    [hist EXCEPT !.ops = @ + 1,
                 !.last = [op |-> name, event |-> None, accounting |-> "none",
                           cmds |-> <<>>, dropped |-> <<>>]]

\* SlayApp::update, is_running: the frame begins and fixes its target
BeginFrame ==
    /\ ~frame.active
    /\ hist.ops < MaxDriverOps
    /\ \E dt \in FrameDts : frame' = [active |-> TRUE, target |-> time + dt]
    /\ hist' = DriverOp("begin_frame")
    /\ UNCHANGED <<seed, time, events, clients, servers, lbs, links, success_count,
                   failure_count, latencies, histogram>>

\* SlayApp::update: one turn of the while loop (the cap of 10000 events per
\* frame is beyond the steps explored)
FrameStep ==
    /\ frame.active
    /\ events # <<>>
    /\ HeapPeek(events).time <= frame.target
    /\ hist.steps < MaxSteps
    /\ \E rnd \in Draws(HeapPeek(events)) : StepWith(rnd)
    /\ UNCHANGED <<frame, seed>>

\* SlayApp::update: the loop ends and time is set to the target
EndFrame ==
    /\ frame.active
    /\ events = <<>> \/ HeapPeek(events).time > frame.target
    /\ time' = frame.target
    /\ frame' = [active |-> FALSE, target |-> 0]
    /\ hist' = [hist EXCEPT !.last.op = "end_frame"]
    /\ UNCHANGED <<seed, events, clients, servers, lbs, links, success_count,
                   failure_count, latencies, histogram>>

\* A config edit that leaves generation_id as it was
ClientConfigChoicesSameGeneration(c) ==
    {ClientConfig(c.config.arrival_rate,
                  IF c.config.timeout = 100 THEN 5000 ELSE 100,
                  c.config.generation_id)}

\* The configs the inspector's Client view can produce from the current
\* one: a changed timeout (100 ms, or back to 5 s), and generation_id + 1
ClientConfigChoices(c) ==
    {ClientConfig(c.config.arrival_rate,
                  IF c.config.timeout = 100 THEN 5000 ELSE 100,
                  c.config.generation_id + 1)}

\* render_inspector: a Client's config is changed; apply_config and the
\* scheduling of the commands it returns
ClientApplyConfig ==
    /\ ~frame.active
    /\ hist.ops < MaxDriverOps
    /\ \E id \in DOMAIN clients :
         \E cfg \in ClientConfigChoices(clients[id]) :
           LET res == ClientApplyConfigResult(clients[id], cfg, id)
               q == ScheduleAll([events |-> events, next_seq |-> hist.next_seq],
                                res.cmds)
           IN  /\ clients' = [clients EXCEPT ![id] = res.comp]
               /\ events' = q.events
               /\ hist' = [DriverOp("client_config") EXCEPT
                              !.next_seq = q.next_seq]
    /\ UNCHANGED <<seed, time, servers, lbs, links, success_count, failure_count,
                   latencies, histogram, frame>>

\* The configs the inspector's Server view can produce: fewer threads, a
\* smaller backlog, a failure probability
ServerConfigChoices(s) ==
    {[s.config EXCEPT !.concurrency = 1],
     [s.config EXCEPT !.backlog_limit = 0],
     [s.config EXCEPT !.failure_probability = 50]} \ {s.config}

\* render_inspector: a Server's config is changed
ServerApplyConfig ==
    /\ ~frame.active
    /\ hist.ops < MaxDriverOps
    /\ \E id \in DOMAIN servers :
         \E cfg \in ServerConfigChoices(servers[id]) :
           servers' = [servers EXCEPT ![id] = ServerApplyConfigResult(@, cfg)]
    /\ hist' = DriverOp("server_config")
    /\ UNCHANGED <<seed, time, events, clients, lbs, links, success_count,
                   failure_count, latencies, histogram, frame>>

\* Configs given to an LB through apply_config
LBConfigChoices(lb) ==
    {[lb.config EXCEPT !.retry_budget_max_tokens = 50],
     [lb.config EXCEPT !.strategy = "Random"]} \ {lb.config}

\* render_inspector: an LB's config is changed
LBApplyConfig ==
    /\ ~frame.active
    /\ hist.ops < MaxDriverOps
    /\ \E id \in DOMAIN lbs :
         \E cfg \in LBConfigChoices(lbs[id]) :
           lbs' = [lbs EXCEPT ![id] = LBApplyConfigResult(@, cfg)]
    /\ hist' = DriverOp("lb_config")
    /\ UNCHANGED <<seed, time, events, clients, servers, links, success_count,
                   failure_count, latencies, histogram, frame>>

\* The statistics of the Simulation, as reset_stats sees them
Stats ==
    [success_count |-> success_count, failure_count |-> failure_count,
     latencies |-> latencies, histogram |-> histogram]

\* A reset that zeroes the counters and keeps the recorded latencies
ResetCountersOnly(st) ==
    [st EXCEPT !.success_count = 0, !.failure_count = 0]

\* Simulation::reset_stats
reset_stats(st) ==
    [st EXCEPT !.success_count = 0, !.failure_count = 0,
               !.latencies = <<>>, !.histogram = <<>>]

\* reset_stats() called alone, by a test or a library user
ResetStatsCall ==
    /\ ~frame.active
    /\ hist.ops < MaxDriverOps
    /\ \E st \in {reset_stats(Stats)} :
          /\ success_count' = st.success_count
          /\ failure_count' = st.failure_count
          /\ latencies' = st.latencies
          /\ histogram' = st.histogram
    /\ hist' = [DriverOp("reset_stats") EXCEPT !.terminal = 0, !.drops = 0]
    /\ UNCHANGED <<seed, time, events, clients, servers, lbs, links, frame>>

\* The RESET button: Simulation::reset_stats, then reset_internal_stats of
\* every component (a Client's touches display fields only)
ResetStats ==
    /\ ~frame.active
    /\ hist.ops < MaxDriverOps
    /\ \E st \in {reset_stats(Stats)} :
          /\ success_count' = st.success_count
          /\ failure_count' = st.failure_count
          /\ latencies' = st.latencies
          /\ histogram' = st.histogram
    /\ servers' = [id \in DOMAIN servers |-> ServerResetInternalStats(servers[id])]
    /\ lbs' = [id \in DOMAIN lbs |-> LBResetInternalStats(lbs[id])]
    /\ hist' = [DriverOp("reset") EXCEPT !.terminal = 0, !.drops = 0]
    /\ UNCHANGED <<seed, time, events, clients, links, frame>>

\* serde_json::Value: a number, a string; an object is a function from
\* field names to values
JsonNum(n) == [kind |-> "num", num |-> n, str |-> ""]
JsonStr(x) == [kind |-> "str", num |-> 0, str |-> x]
\* what a deserializer sees for a field the object does not have
JsonMissing == [kind |-> "missing", num |-> 0, str |-> ""]

\* A deserializer that takes the default for a field the object lacks
FieldOrDefault(doc, name, default) ==
    IF name \in DOMAIN doc THEN doc[name] ELSE default

\* #[derive(Deserialize)] without #[serde(default)]: a field the object
\* lacks is an error, whatever the Default of the struct says
Field(doc, name, default) ==
    IF name \in DOMAIN doc THEN doc[name] ELSE JsonMissing

\* Deserialization of f32, of u64 and u32, and of an enum's unit variants
IsNumber(v) == v.kind = "num"
IsUnsigned(v) == v.kind = "num" /\ v.num >= 0
IsVariant(v, variants) == v.kind = "str" /\ v.str \in variants

BalancingStrategies == {"RoundRobin", "Random", "LeastConnections"}
RetryStrategies == {"Immediate", "Constant", "Exponential"}

\* impl Default for ClientConfig and for ServerConfig
DefaultClientConfig == ClientConfig(5, 5000, 1)
DefaultServerConfig == ServerConfig(200, 4, 50, 0, 0)

\* encode_config: serde_json::to_value of the config
ClientToValue(cfg) ==
    [arrival_rate |-> JsonNum(cfg.arrival_rate),
     timeout |-> JsonNum(cfg.timeout),
     generation_id |-> JsonNum(cfg.generation_id)]

ServerToValue(cfg) ==
    [service_time |-> JsonNum(cfg.service_time),
     concurrency |-> JsonNum(cfg.concurrency),
     backlog_limit |-> JsonNum(cfg.backlog_limit),
     failure_probability |-> JsonNum(cfg.failure_probability),
     saturation_penalty |-> JsonNum(cfg.saturation_penalty)]

LBToValue(cfg) ==
    [strategy |-> JsonStr(cfg.strategy),
     max_retries |-> JsonNum(cfg.max_retries),
     retry_backoff_ms |-> JsonNum(cfg.retry_backoff_ms),
     retry_strategy |-> JsonStr(cfg.retry_strategy),
     retry_budget_ratio |-> JsonNum(cfg.retry_budget_ratio),
     min_retry_rate |-> JsonNum(cfg.min_retry_rate),
     retry_budget_max_tokens |-> JsonNum(cfg.retry_budget_max_tokens)]

\* serde_json::from_value::<ClientConfig>
ClientFromValue(doc) ==
    LET d == ClientToValue(DefaultClientConfig)
        a == Field(doc, "arrival_rate", d.arrival_rate)
        t == Field(doc, "timeout", d.timeout)
        g == Field(doc, "generation_id", d.generation_id)
    IN  IF IsNumber(a) /\ IsUnsigned(t) /\ IsUnsigned(g)
        THEN [ok |-> TRUE, cfg |-> ClientConfig(a.num, t.num, g.num)]
        ELSE [ok |-> FALSE, cfg |-> None]

\* serde_json::from_value::<ServerConfig>
ServerFromValue(doc) ==
    LET d == ServerToValue(DefaultServerConfig)
        st == Field(doc, "service_time", d.service_time)
        cc == Field(doc, "concurrency", d.concurrency)
        bl == Field(doc, "backlog_limit", d.backlog_limit)
        fp == Field(doc, "failure_probability", d.failure_probability)
        sp == Field(doc, "saturation_penalty", d.saturation_penalty)
    IN  IF IsUnsigned(st) /\ IsUnsigned(cc) /\ IsUnsigned(bl)
           /\ IsNumber(fp) /\ IsNumber(sp)
        THEN [ok |-> TRUE,
              cfg |-> ServerConfig(st.num, cc.num, bl.num, fp.num, sp.num)]
        ELSE [ok |-> FALSE, cfg |-> None]

\* serde_json::from_value::<LoadBalancerConfig>
LBFromValue(doc) ==
    LET d == LBToValue(DefaultLoadBalancerConfig)
        sg == Field(doc, "strategy", d.strategy)
        mr == Field(doc, "max_retries", d.max_retries)
        rb == Field(doc, "retry_backoff_ms", d.retry_backoff_ms)
        rs == Field(doc, "retry_strategy", d.retry_strategy)
        rr == Field(doc, "retry_budget_ratio", d.retry_budget_ratio)
        mn == Field(doc, "min_retry_rate", d.min_retry_rate)
        mt == Field(doc, "retry_budget_max_tokens", d.retry_budget_max_tokens)
    IN  IF IsVariant(sg, BalancingStrategies) /\ IsUnsigned(mr)
           /\ IsUnsigned(rb) /\ IsVariant(rs, RetryStrategies)
           /\ IsNumber(rr) /\ IsUnsigned(mn) /\ IsNumber(mt)
        THEN [ok |-> TRUE,
              cfg |-> LoadBalancerConfig(sg.str, mr.num, rb.num, rs.str,
                                         rr.num, mn.num, mt.num)]
        ELSE [ok |-> FALSE, cfg |-> None]

\* Client::apply_config.  Returns the Client and the commands.
ClientApplyConfigJson(c, doc, node_id) ==
    LET r == ClientFromValue(doc)
    IN  IF r.ok THEN ClientApplyConfigResult(c, r.cfg, node_id)
        ELSE [comp |-> c, cmds |-> <<>>]

\* Server::apply_config (it returns no command)
ServerApplyConfigJson(sv, doc) ==
    LET r == ServerFromValue(doc)
    IN  IF r.ok THEN ServerApplyConfigResult(sv, r.cfg) ELSE sv

\* LoadBalancer::apply_config (it returns no command)
LBApplyConfigJson(lb, doc) ==
    LET r == LBFromValue(doc)
    IN  IF r.ok THEN LBApplyConfigResult(lb, r.cfg) ELSE lb

\* JSON that is no config: an object that lacks fields, and a complete
\* object with a value of the wrong type (a string for a u64, a negative
\* number for a u32, an unknown variant)
InvalidClientDocs(c) ==
    {[arrival_rate |-> JsonNum(20)],
     [ClientToValue(c.config) EXCEPT !.timeout = JsonStr("soon")]}

InvalidServerDocs(sv) ==
    {[service_time |-> JsonNum(5)],
     [ServerToValue(sv.config) EXCEPT !.concurrency = JsonNum(-1)]}

InvalidLBDocs(lb) ==
    {[strategy |-> JsonStr("Random")],
     [LBToValue(lb.config) EXCEPT !.strategy = JsonStr("Fastest")]}

\* JSON the inspector's views produce from the current config: the next
\* generation of a Client, a Server with one thread, an LB that picks at
\* random
ValidClientDocs(c) ==
    {ClientToValue(cfg) : cfg \in ClientConfigChoices(c)}

ValidServerDocs(sv) ==
    {ServerToValue([sv.config EXCEPT !.concurrency = 1])}

ValidLBDocs(lb) ==
    {LBToValue([lb.config EXCEPT !.strategy = "Random"])}

\* apply_config of a node with a JSON value, and the scheduling of the
\* commands it returns; the operation is recorded as "invalid_config" when
\* the value was taken from the JSON that is no config
ApplyConfigJson ==
    /\ ~frame.active
    /\ hist.ops < MaxDriverOps
    /\ \/ \E id \in DOMAIN clients :
            \E bad \in BOOLEAN :
              \E doc \in IF bad THEN InvalidClientDocs(clients[id])
                          ELSE ValidClientDocs(clients[id]) :
                LET res == ClientApplyConfigJson(clients[id], doc, id)
                    q == ScheduleAll([events |-> events,
                                      next_seq |-> hist.next_seq], res.cmds)
                IN  /\ clients' = [clients EXCEPT ![id] = res.comp]
                    /\ events' = q.events
                    /\ hist' = [DriverOp(IF bad THEN "invalid_config"
                                         ELSE "apply_config") EXCEPT
                                   !.next_seq = q.next_seq]
                    /\ UNCHANGED <<servers, lbs>>
       \/ \E id \in DOMAIN servers :
            \E bad \in BOOLEAN :
              \E doc \in IF bad THEN InvalidServerDocs(servers[id])
                          ELSE ValidServerDocs(servers[id]) :
                /\ servers' = [servers EXCEPT
                                  ![id] = ServerApplyConfigJson(@, doc)]
                /\ hist' = DriverOp(IF bad THEN "invalid_config"
                                    ELSE "apply_config")
                /\ UNCHANGED <<clients, lbs, events>>
       \/ \E id \in DOMAIN lbs :
            \E bad \in BOOLEAN :
              \E doc \in IF bad THEN InvalidLBDocs(lbs[id])
                          ELSE ValidLBDocs(lbs[id]) :
                /\ lbs' = [lbs EXCEPT ![id] = LBApplyConfigJson(@, doc)]
                /\ hist' = DriverOp(IF bad THEN "invalid_config"
                                    ELSE "apply_config")
                /\ UNCHANGED <<clients, servers, events>>
    /\ UNCHANGED <<seed, time, links, success_count, failure_count,
                   latencies, histogram, frame>>

\* Client::remove_target and Server::remove_target
ClientRemoveTarget(c, target) ==
    IF c.target_id = target THEN [c EXCEPT !.target_id = None] ELSE c

ServerRemoveTarget(sv, target) ==
    IF sv.next_hop = target THEN [sv EXCEPT !.next_hop = None] ELSE sv

\* A remove_target that cleans the tables and keeps the list of targets
LBRemoveTargetKeepsList(lb, target) ==
    [lb EXCEPT
        !.active_loads = Del(@, target),
        !.state_table = [r \in {x \in DOMAIN @ : @[x] # target} |-> @[r]]]

\* A remove_target that forgets the load of the target and keeps the
\* requests that were sent to it
LBRemoveTargetKeepsTable(lb, target) ==
    [lb EXCEPT
        !.targets = SeqFilter(@, {@[i] : i \in 1..Len(@)} \ {target}),
        !.active_loads = Del(@, target)]

\* LoadBalancer::remove_target
LBRemoveTarget(lb, target) ==
    [lb EXCEPT
        !.targets = SeqFilter(@, {@[i] : i \in 1..Len(@)} \ {target}),
        !.active_loads = Del(@, target),
        !.state_table = [r \in {x \in DOMAIN @ : @[x] # target} |-> @[r]]]

\* Simulation::remove_node, called for the node the driver deletes
RemoveNode ==
    /\ ~frame.active
    /\ hist.ops < MaxDriverOps
    /\ \E id \in NodeIds :
         /\ clients' = [i \in DOMAIN clients \ {id} |->
                            ClientRemoveTarget(clients[i], id)]
         /\ servers' = [i \in DOMAIN servers \ {id} |->
                            ServerRemoveTarget(servers[i], id)]
         /\ lbs' = [i \in DOMAIN lbs \ {id} |-> LBRemoveTarget(lbs[i], id)]
         /\ links' = [k \in {x \in DOMAIN links : x[1] # id /\ x[2] # id} |->
                          links[k]]
         /\ hist' = [DriverOp("remove_node") EXCEPT !.removed = @ \cup {id}]
    /\ UNCHANGED <<seed, time, events, success_count, failure_count,
                   latencies, histogram, frame>>

\* The KILL button of the inspector: set_healthy(false) of a healthy
\* component
KillNode ==
    /\ ~frame.active
    /\ hist.ops < MaxDriverOps
    /\ \E id \in NodeIds :
         /\ HealthBuffer[id]
         /\ clients' = IF id \in DOMAIN clients
                        THEN [clients EXCEPT ![id].healthy = FALSE]
                        ELSE clients
         /\ servers' = IF id \in DOMAIN servers
                        THEN [servers EXCEPT ![id].healthy = FALSE]
                        ELSE servers
         /\ lbs' = IF id \in DOMAIN lbs
                    THEN [lbs EXCEPT ![id].is_healthy = FALSE]
                    ELSE lbs
    /\ hist' = DriverOp("kill")
    /\ UNCHANGED <<seed, time, events, links, success_count, failure_count,
                   latencies, histogram, frame>>

-----------------------------------------------------------------------------
(* Constructions *)

\* spawn_node / apply_state: each Client's apply_config at construction
\* returns its first GenerateNext, scheduled at time 0 in the order the
\* nodes are created
RECURSIVE KickOffs(_, _, _)
KickOffs(q, ids, cs) ==
    IF ids = <<>> THEN q
    ELSE KickOffs(Schedule(q, 0, Head(ids),
                           GenerateNext(cs[Head(ids)].config.generation_id)),
                  Tail(ids), cs)

ConstructWith(sd, cs, client_order, ss, ls, lks) ==
    LET q == KickOffs([events |-> <<>>, next_seq |-> 0], client_order, cs)
    IN  /\ time = 0
        /\ events = q.events
        /\ clients = cs
        /\ servers = ss
        /\ lbs = ls
        /\ links = lks
        /\ success_count = 0
        /\ failure_count = 0
        /\ latencies = <<>>
        /\ histogram = <<>>
        /\ frame = [active |-> FALSE, target |-> 0]
        /\ seed = sd
        /\ hist = HistInit(q.next_seq)

\* Simulation::new() of the application and of TestHarness::new(): no seed
\* is given and every RNG comes from entropy
Construct(cs, client_order, ss, ls, lks) ==
    ConstructWith(None, cs, client_order, ss, ls, lks)

\* setup_default_topology: Client 1 -> LoadBalancer 2 -> Servers 3 and 4,
\* every config the default one, no link entry yet
Init ==
    Construct(
        (1 :> NewClient(ClientConfig(5, 5000, 1), 2)),
        <<1>>,
        (3 :> NewServer(ServerConfig(200, 4, 50, 0, 5), None)) @@
        (4 :> NewServer(ServerConfig(200, 4, 50, 0, 5), None)),
        (2 :> NewLoadBalancer(DefaultLoadBalancerConfig, <<3, 4>>)),
        [k \in {} |-> DefaultLink])

Next ==
    \/ Step
    \/ BeginFrame
    \/ FrameStep
    \/ EndFrame
    \/ ClientApplyConfig
    \/ LBApplyConfig

Spec == Init /\ [][Next]_vars

-----------------------------------------------------------------------------
(* A hot server: Clients 1..4 -> Server 5 (30 ms, 2 threads, backlog 1),   *)
(* connected with default links; timeout 54 ms.  The four first requests   *)
(* arrive together: two are admitted, one is queued, one is rejected.      *)
(* The driver changes the Server's config, resets the statistics or kills  *)
(* a node.                                                                 *)

InitServer ==
    Construct(
        [id \in 1..4 |-> NewClient(ClientConfig(5, 54, 1), 5)],
        <<1, 2, 3, 4>>,
        (5 :> NewServer(ServerConfig(30, 2, 1, 0, 5), None)),
        [id \in {} |-> 0],
        [k \in {<<1, 5>>, <<2, 5>>, <<3, 5>>, <<4, 5>>} |-> DefaultLink])

NextServer ==
    \/ Step
    \/ ServerApplyConfig
    \/ ResetStats
    \/ KillNode

SpecServer == InitServer /\ [][NextServer]_vars

-----------------------------------------------------------------------------
(* Lossy links, retries and a proxy chain:                                 *)
(*   Client 1 -> LoadBalancer 2 -> {Server 3 (always fails),               *)
(*                                  Server 4 -> next_hop Server 5}         *)
(* The edge 2 -> 3 and the edge 4 -> 2 lose half of the packets; the edge  *)
(* 1 -> 2 has 500 us of jitter.                                            *)

LossyLinks ==
    (<<1, 2>> :> [min_to_max |-> EdgeConfig(DEFAULT_LATENCY_US, 500, 0),
                  max_to_min |-> DefaultEdge]) @@
    (<<2, 3>> :> [min_to_max |-> EdgeConfig(DEFAULT_LATENCY_US, 0, 50),
                  max_to_min |-> DefaultEdge]) @@
    (<<2, 4>> :> [min_to_max |-> DefaultEdge,
                  max_to_min |-> EdgeConfig(DEFAULT_LATENCY_US, 0, 50)]) @@
    (<<4, 5>> :> DefaultLink)

InitLossy ==
    Construct(
        (1 :> NewClient(ClientConfig(10, 5000, 1), 2)),
        <<1>>,
        (3 :> NewServer(ServerConfig(10, 4, 50, 100, 5), None)) @@
        (4 :> NewServer(ServerConfig(10, 4, 50, 0, 5), 5)) @@
        (5 :> NewServer(ServerConfig(10, 4, 50, 0, 5), None)),
        (2 :> NewLoadBalancer(
                  [DefaultLoadBalancerConfig EXCEPT !.max_retries = 1,
                                                    !.retry_backoff_ms = 10],
                  <<3, 4>>)),
        LossyLinks)

NextLossy ==
    \/ Step
    \/ ResetStats

SpecLossy == InitLossy /\ [][NextLossy]_vars

-----------------------------------------------------------------------------
(* Retries against failing backends:                                       *)
(*   Client 1 -> LoadBalancer 2 (max_retries 1) -> Servers 3, 4, 5, each   *)
(*   failing every request.  The edge 2 -> 3 loses half of the packets,    *)
(*   the edge 2 -> 5 all of them; the other edges lose none.  The driver   *)
(*   resets the statistics or removes a node.                              *)

RetryLinks ==
    (<<1, 2>> :> DefaultLink) @@
    (<<2, 3>> :> [min_to_max |-> EdgeConfig(DEFAULT_LATENCY_US, 0, 50),
                  max_to_min |-> DefaultEdge]) @@
    (<<2, 4>> :> DefaultLink) @@
    (<<2, 5>> :> [min_to_max |-> EdgeConfig(DEFAULT_LATENCY_US, 0, 100),
                  max_to_min |-> DefaultEdge])

InitRetry ==
    Construct(
        (1 :> NewClient(ClientConfig(10, 5000, 1), 2)),
        <<1>>,
        [id \in {3, 4, 5} |-> NewServer(ServerConfig(10, 4, 50, 100, 5), None)],
        (2 :> NewLoadBalancer(
                  [DefaultLoadBalancerConfig EXCEPT !.max_retries = 1,
                                                    !.retry_backoff_ms = 10],
                  <<3, 4, 5>>)),
        RetryLinks)

NextRetry ==
    \/ Step
    \/ ResetStats
    \/ RemoveNode

SpecRetry == InitRetry /\ [][NextRetry]_vars

-----------------------------------------------------------------------------
(* Seeded runs (TestHarness::new_with_seed, determinism.rs):               *)
(*   Client 1 (100 rps) -> LoadBalancer 2 (Random) -> Servers 3 and 4      *)
(*   (10 ms, 10 threads, backlog 100), connected with default links.       *)

\* The seeds tried
Seeds == {1, 2}

SeededLinks ==
    [k \in {<<1, 2>>, <<2, 3>>, <<2, 4>>} |-> DefaultLink]

InitSeeded ==
    \E sd \in Seeds :
        ConstructWith(
            sd,
            (1 :> NewClient(ClientConfig(100, 5000, 1), 2)),
            <<1>>,
            [id \in {3, 4} |-> NewServer(ServerConfig(10, 10, 100, 0, 5), None)],
            (2 :> NewLoadBalancer(
                      [DefaultLoadBalancerConfig EXCEPT !.strategy = "Random"],
                      <<3, 4>>)),
            SeededLinks)

NextSeeded == Step

SpecSeeded == InitSeeded /\ [][NextSeeded]_vars

-----------------------------------------------------------------------------
(* The inspector at work on a chain:                                       *)
(*   Client 1 -> LoadBalancer 2 -> Servers 3 and 4, Server 3 -> next_hop   *)
(*   Server 4, connected with default links.  The driver applies JSON to   *)
(*   a node's config.                                                      *)

DriverLinks ==
    [k \in {<<1, 2>>, <<2, 3>>, <<2, 4>>, <<3, 4>>} |-> DefaultLink]

InitDriver ==
    Construct(
        (1 :> NewClient(ClientConfig(10, 5000, 1), 2)),
        <<1>>,
        (3 :> NewServer(ServerConfig(10, 4, 50, 0, 5), 4)) @@
        (4 :> NewServer(ServerConfig(10, 4, 50, 0, 5), None)),
        (2 :> NewLoadBalancer(DefaultLoadBalancerConfig, <<3, 4>>)),
        DriverLinks)

NextDriver ==
    \/ Step
    \/ ApplyConfigJson

SpecDriver == InitDriver /\ [][NextDriver]_vars

\* The same chain, with a driver that removes nodes or calls reset_stats()
NextRemove ==
    \/ Step
    \/ RemoveNode
    \/ ResetStatsCall

SpecRemove == InitDriver /\ [][NextRemove]_vars

-----------------------------------------------------------------------------
(* A Client in front of one Server: Client 1 (10 rps) -> Server 2, with a  *)
(* default link.  The driver raises the Client's generation or kills a     *)
(* node.                                                                   *)

InitClient ==
    Construct(
        (1 :> NewClient(ClientConfig(10, 5000, 1), 2)),
        <<1>>,
        (2 :> NewServer(ServerConfig(10, 4, 50, 0, 5), None)),
        [id \in {} |-> 0],
        (<<1, 2>> :> DefaultLink))

NextClient ==
    \/ Step
    \/ ClientApplyConfig
    \/ KillNode

SpecClient == InitClient /\ [][NextClient]_vars

-----------------------------------------------------------------------------
(* Failover: Client 1 -> LoadBalancer 2 (LeastConnections, max_retries 2)  *)
(* in front of Servers 3, 4 and 5, each failing every request, with        *)
(* lossless default links.  The LoadBalancer is built in one of three      *)
(* ways: one retry token and Immediate retries; two tokens, Exponential    *)
(* retries and, in place of Server 5, the target 9 that is no component;   *)
(* two tokens and Exponential retries.  The driver kills nodes.            *)

FailoverConfigs ==
    {[tokens |-> 10, targets |-> <<3, 4, 5>>, retry_strategy |-> "Immediate"],
     [tokens |-> 20, targets |-> <<3, 4, 9>>, retry_strategy |-> "Exponential"],
     [tokens |-> 20, targets |-> <<3, 4, 5>>, retry_strategy |-> "Exponential"],
     [tokens |-> 20, targets |-> <<3, 9>>, retry_strategy |-> "Constant"]}

InitFailover ==
    \E f \in FailoverConfigs :
      Construct(
        (1 :> NewClient(ClientConfig(10, 5000, 1), 2)),
        <<1>>,
        [id \in {3, 4, 5} |-> NewServer(ServerConfig(10, 4, 50, 100, 5), None)],
        (2 :> NewLoadBalancer(
                  LoadBalancerConfig("LeastConnections", 2, 10,
                                     f.retry_strategy, 2, 10, f.tokens),
                  f.targets)),
        [k \in {<<1, 2>>, <<2, 3>>, <<2, 4>>, <<2, 5>>} |-> DefaultLink])

NextFailover ==
    \/ Step
    \/ KillNode

SpecFailover == InitFailover /\ [][NextFailover]_vars

-----------------------------------------------------------------------------
(* test_retry_on_failure:                                                  *)
(*   Client 1 (10 rps) -> LoadBalancer 2 (RoundRobin, retry_backoff_ms 10) *)
(*   -> BadServer 3 (failure_probability 1.0) and GoodServer 4, every link *)
(*   the default one.  max_retries is the test's 1 or the default 2, and   *)
(*   the targets are connected in either order.                            *)

InitRetryOnFailure ==
    \E f \in [max_retries : {1, 2}, targets : {<<3, 4>>, <<4, 3>>}] :
        Construct(
            (1 :> NewClient(ClientConfig(10, 5000, 1), 2)),
            <<1>>,
            (3 :> NewServer(ServerConfig(100, 100, 100, 100, 5), None)) @@
            (4 :> NewServer(ServerConfig(10, 100, 100, 0, 5), None)),
            (2 :> NewLoadBalancer(
                      [DefaultLoadBalancerConfig EXCEPT
                           !.strategy = "RoundRobin",
                           !.max_retries = f.max_retries,
                           !.retry_backoff_ms = 10],
                      f.targets)),
            [k \in {<<1, 2>>, <<2, 3>>, <<2, 4>>} |-> DefaultLink])

NextRetryOnFailure ==
    \/ Step

SpecRetryOnFailure == InitRetryOnFailure /\ [][NextRetryOnFailure]_vars

-----------------------------------------------------------------------------
(* Two Clients behind one LoadBalancer:                                    *)
(*   Clients 1 and 2 (10 rps each) -> LoadBalancer 3 -> Server 4, every    *)
(*   link the default one.  The driver may change a Client's config.       *)

InitSharedLB ==
    Construct(
        [id \in {1, 2} |-> NewClient(ClientConfig(10, 5000, 1), 3)],
        <<1, 2>>,
        (4 :> NewServer(ServerConfig(10, 4, 50, 0, 5), None)),
        (3 :> NewLoadBalancer(DefaultLoadBalancerConfig, <<4>>)),
        [k \in {<<1, 3>>, <<2, 3>>, <<3, 4>>} |-> DefaultLink])

NextSharedLB ==
    \/ Step
    \/ ClientApplyConfig

SpecSharedLB == InitSharedLB /\ [][NextSharedLB]_vars

-----------------------------------------------------------------------------
(* test_server_proxy_chain behind a LoadBalancer, with a queueing proxy:   *)
(*   Client 1 (100 rps) -> LoadBalancer 2 -> Server 3 (100 ms, one thread, *)
(*   next_hop 4) -> Server 4 (10 ms), every link the default one, the      *)
(*   Simulation seeded.  Nodes may be killed; step() keeps being called.   *)

InitProxyChain ==
    \E sd \in Seeds :
      ConstructWith(
        sd,
        (1 :> NewClient(ClientConfig(100, 5000, 1), 2)),
        <<1>>,
        (3 :> NewServer(ServerConfig(100, 1, 10, 0, 5), 4)) @@
        (4 :> NewServer(ServerConfig(10, 1, 10, 0, 5), None)),
        (2 :> NewLoadBalancer(DefaultLoadBalancerConfig, <<3>>)),
        [k \in {<<1, 2>>, <<2, 3>>, <<3, 4>>} |-> DefaultLink])

NextProxyChain ==
    \/ Step
    \/ StepDrain
    \/ KillNode

\* step() is called whenever there is an event to pop
SpecProxyChain ==
    /\ InitProxyChain
    /\ [][NextProxyChain]_vars
    /\ WF_vars(Step)
    /\ WF_vars(StepDrain)

-----------------------------------------------------------------------------
(* test_load_balancer_least_connections:                                   *)
(*   Client 1 (200 rps) -> LoadBalancer 2 (LeastConnections) -> Slow       *)
(*   Server 3 (500 ms) and Fast Server 4 (1 ms), every link the default    *)
(*   one; the targets are connected in either order and a node may be      *)
(*   killed.  The Servers have 4 threads, more than the requests they get. *)

InitLeastConnections ==
    \E targets \in {<<3, 4>>, <<4, 3>>} :
        Construct(
            (1 :> NewClient(ClientConfig(200, 5000, 1), 2)),
            <<1>>,
            (3 :> NewServer(ServerConfig(500, 4, 100, 0, 5), None)) @@
            (4 :> NewServer(ServerConfig(1, 4, 100, 0, 5), None)),
            (2 :> NewLoadBalancer(
                      [DefaultLoadBalancerConfig EXCEPT
                           !.strategy = "LeastConnections"],
                      targets)),
            [k \in {<<1, 2>>, <<2, 3>>, <<2, 4>>} |-> DefaultLink])

NextLeastConnections ==
    \/ Step
    \/ KillNode

SpecLeastConnections == InitLeastConnections /\ [][NextLeastConnections]_vars

(* An idle Client: Client 1, whose arrival_rate is zero or negative, and   *)
(* Client 2 at 3 requests per second send to Server 3, which has two       *)
(* threads, a service time of 10 ms and a saturation penalty of 1.0.       *)

InitIdleClient ==
    \E rate \in {0, -5} :
        Construct(
            (1 :> NewClient(ClientConfig(rate, 5000, 1), 3)) @@
            (2 :> NewClient(ClientConfig(3, 5000, 1), 3)),
            <<1, 2>>,
            (3 :> NewServer(ServerConfig(10, 2, 50, 0, 10), None)),
            [id \in {} |-> 0],
            [k \in {<<1, 3>>, <<2, 3>>} |-> DefaultLink])

NextIdleClient ==
    \/ Step

SpecIdleClient == InitIdleClient /\ [][NextIdleClient]_vars

-----------------------------------------------------------------------------
(* Properties *)

\* The last action was a step() (hist.last.event is the event it popped)
Stepped == hist.last.op = "step"

\* This step is a step(): it pops HeapPeek(events)
IsStep == hist'.steps = hist.steps + 1

C2_QueuedEventsNotInPast ==
    \A i \in 1..Len(events) : events[i].time >= time

\* C2 witness: a frame has ended and set time to its target, with events
\* still queued.
C2_Witness ==
    /\ hist.last.op = "end_frame"
    /\ hist.steps > 0
    /\ time > 0
    /\ events # <<>>

\* C3: a step() pops, among the queued events of the least time, the one
\* inserted first (FIFO tie-breaking).
C3_FifoTies ==
    [][IsStep =>
         \A i \in 1..Len(events) :
            events[i].time = HeapPeek(events).time
                => HeapPeek(events).seq <= events[i].seq]_vars

\* C4: a step() that pops a Response of path length 1 adds exactly 1 to
\* exactly one counter: failure_count if elapsed > timeout, whatever the
\* success flag; else success_count if success, recording the elapsed time
\* in the ring and the histogram; else failure_count.
C4_TerminalAccounting ==
    [][(/\ IsStep
        /\ HeapPeek(events).event_type.type = "Response"
        /\ Len(HeapPeek(events).event_type.path) = 1) =>
         LET e == HeapPeek(events)
             elapsed == SatSub(e.time, e.event_type.start_time)
         IN  IF elapsed > e.event_type.timeout
             THEN /\ failure_count' = failure_count + 1
                  /\ success_count' = success_count
                  /\ UNCHANGED <<latencies, histogram>>
             ELSE IF e.event_type.success
             THEN /\ success_count' = success_count + 1
                  /\ failure_count' = failure_count
                  /\ histogram' = Append(histogram, elapsed)
                  /\ latencies' # <<>>
                  /\ Last(latencies') = <<e.time, elapsed>>
             ELSE /\ failure_count' = failure_count + 1
                  /\ success_count' = success_count
                  /\ UNCHANGED <<latencies, histogram>>]_vars

\* C4 witness: a Response of path length 1 with success = true has just
\* been counted as a failure because it came after its timeout, in a run
\* that has also counted a success.
C4_Witness ==
    /\ Stepped
    /\ hist.last.accounting = "timeout"
    /\ hist.last.event.event_type.success
    /\ success_count >= 1

\* C5 as claimed: success_count + failure_count equals the number of
\* Responses of path length 1 dispatched since the last reset.
C5_CountsEqualTerminals ==
    success_count + failure_count = hist.terminal

\* C5 amended: the sum equals those Responses plus the commands dropped by
\* packet loss since the last reset.
C5_CountsEqualTerminalsPlusDrops ==
    success_count + failure_count = hist.terminal + hist.drops

\* C5 witness: since the last reset a command has been dropped and a
\* Response of path length 1 has been dispatched.
C5_Witness ==
    /\ hist.drops >= 1
    /\ hist.terminal >= 1

\* C6: no request id adds more than 1 to success_count + failure_count.
C6_CountedAtMostOnce ==
    \A rid \in DOMAIN hist.counted : hist.counted[rid] <= 1

\* C6 witness: a request that failed at Server 3, was retried by the LB and
\* was proxied by Server 4 to Server 5 has just been counted, once, as a
\* success at its terminal Response.
C6_Witness ==
    /\ Stepped
    /\ hist.last.accounting = "success"
    /\ \E id \in DOMAIN lbs : lbs[id].total_retries >= 1
    /\ hist.counted[hist.last.event.event_type.request_id] = 1

\* C7: each Server's active_threads <= its config.concurrency.
C7_ThreadsWithinConcurrency ==
    \A id \in DOMAIN servers :
        servers[id].active_threads <= servers[id].config.concurrency

\* C8: each Server's queue length <= its config.backlog_limit.
C8_QueueWithinBacklog ==
    \A id \in DOMAIN servers :
        Len(servers[id].queue) <= servers[id].config.backlog_limit

\* An attempt the LB lb forwarded for rid is outstanding: an Arrival,
\* ProcessComplete or Response for rid whose path passes through lb is in
\* the event queue, or the request is queued at a Server.
Outstanding(lb, rid) ==
    \/ \E i \in 1..Len(events) :
          /\ events[i].event_type.type \in {"Arrival", "ProcessComplete", "Response"}
          /\ events[i].event_type.request_id = rid
          /\ Contains(events[i].event_type.path, lb)
    \/ \E id \in DOMAIN servers :
          \E k \in 1..Len(servers[id].queue) :
             /\ servers[id].queue[k].request_id = rid
             /\ Contains(servers[id].queue[k].path, lb)

\* C9: in a run without resets, state_table of an LB contains rid iff an
\* attempt the LB forwarded for rid is outstanding.
C9_StateTableIffOutstanding ==
    hist.ops = 0 =>
        \A lb \in DOMAIN lbs :
            \A c \in DOMAIN clients :
                \A n \in 1..clients[c].request_counter :
                    \A salt \in SaltDraws :
                        LET rid == RequestId(c, salt, n)
                        IN  rid \in DOMAIN lbs[lb].state_table
                                <=> Outstanding(lb, rid)

\* C10: retry_token_balance of every LB is within [0, M], M its
\* config.retry_budget_max_tokens.
C10_TokensWithinBudget ==
    \A id \in DOMAIN lbs :
        /\ lbs[id].retry_token_balance >= 0
        /\ lbs[id].retry_token_balance <= lbs[id].config.retry_budget_max_tokens

\* C11: total_retries of an LB is at most max_retries times the number of
\* requests whose first Response at this LB was a failure.
C11_RetriesBounded ==
    \A id \in DOMAIN lbs :
        lbs[id].total_retries
            <= lbs[id].config.max_retries
                 * Cardinality({k \in hist.first_failed : k[1] = id})

\* C11 witness: a request has been retried max_retries times and its retry
\* has failed too, so the LB has given up on it.
C11_Witness ==
    /\ Stepped
    /\ hist.last.event.node_id \in DOMAIN lbs
    /\ hist.last.event.event_type.type = "Response"
    /\ ~hist.last.event.event_type.success
    /\ lbs[hist.last.event.node_id].total_retries >= 1
    /\ hist.last.cmds # <<>>
    /\ hist.last.cmds[1].event_type.type = "Response"

\* The Arrivals the LB lb has forwarded to the target t
Forwarded(lb, t) == GetOr(hist.forwarded, <<lb, t>>, 0)

\* C12: for an LB under RoundRobin with exactly two backends that are
\* healthy and have never failed a request, the numbers of Arrivals
\* forwarded to the two backends differ by at most 1.
C12_RoundRobinFair ==
    \A id \in DOMAIN lbs :
        (/\ lbs[id].config.strategy = "RoundRobin"
         /\ Len(lbs[id].targets) = 2
         /\ \A i \in 1..2 : is_node_healthy(HealthBuffer, lbs[id].targets[i])
         /\ hist.first_failed = {}
         /\ lbs[id].total_retries = 0)
        => LET d == Forwarded(id, lbs[id].targets[1])
                    - Forwarded(id, lbs[id].targets[2])
           IN  d \in {-1, 0, 1}

\* C12 witness: under RoundRobin the LB has forwarded a third Arrival, so
\* one backend has two and the other one.
C12_Witness ==
    /\ lbs[2].config.strategy = "RoundRobin"
    /\ Forwarded(2, 3) = 2
    /\ Forwarded(2, 4) = 1

\* C13: with a seed, a run is reproducible: whatever the RNGs yield, the
\* step() of a state has one outcome (so two Simulations built with the
\* same seed and driven alike stay in identical states step by step).
C13_SameSeedSameRun ==
    (seed # None /\ events # <<>>)
        => \A r1, r2 \in Draws(HeapPeek(events)) : StepNext(r1) = StepNext(r2)

\* The events a step has inserted into the queue
NewEvents ==
    {events'[i] : i \in {k \in 1..Len(events') : events'[k].seq >= hist.next_seq}}

\* The k-th command of the handler this step has run crosses from the
\* handler's node to another node (an Arrival or a Response)
CrossNode(k) ==
    LET c == hist'.last.cmds[k]
    IN  /\ c.event_type.type \in {"Arrival", "Response"}
        /\ c.node_id # HeapPeek(events).node_id

\* The link key of the k-th command of the handler this step has run
CmdKey(k) ==
    canonical_key(HeapPeek(events).node_id, hist'.last.cmds[k].node_id)

\* The k-th command has been enqueued, once, at the time t
EnqueuedAt(k, t) ==
    LET c == hist'.last.cmds[k]
        es == {e \in NewEvents : e.node_id = c.node_id
                                  /\ e.event_type = c.event_type}
    IN  /\ es # {}
        /\ \A e \in es : e.time = t

\* C14 as claimed: a cross-node command whose node pair has no link entry
\* is never dropped and is enqueued at exactly now + cmd.delay.
C14_MissingLinkZeroLatency ==
    [][IsStep =>
         \A k \in 1..Len(hist'.last.cmds) :
            (CrossNode(k) /\ CmdKey(k) \notin DOMAIN links)
                => /\ hist'.last.dropped = <<>>
                   /\ EnqueuedAt(k, HeapPeek(events).time
                                        + hist'.last.cmds[k].delay)]_vars

\* C14 amended: such a command is never dropped, is enqueued at exactly
\* now + cmd.delay + 10 000 us, and the default Link is stored for the pair.
C14_MissingLinkDefaultLatency ==
    [][IsStep =>
         \A k \in 1..Len(hist'.last.cmds) :
            (CrossNode(k) /\ CmdKey(k) \notin DOMAIN links)
                => /\ hist'.last.dropped = <<>>
                   /\ EnqueuedAt(k, HeapPeek(events).time
                                        + hist'.last.cmds[k].delay
                                        + DEFAULT_LATENCY_US)
                   /\ CmdKey(k) \in DOMAIN links'
                   /\ links'[CmdKey(k)].min_to_max = EdgeConfig(DEFAULT_LATENCY_US, 0, 0)
                   /\ links'[CmdKey(k)].max_to_min = EdgeConfig(DEFAULT_LATENCY_US, 0, 0)]_vars

\* C14 witness: the first step() of the default topology, which has no
\* link entries: the Client's Arrival for the LB has crossed the missing
\* link 1-2 and waits in the queue, and the link table now has that entry.
C14_Witness ==
    /\ Stepped
    /\ hist.steps = 1
    /\ DOMAIN links = {<<1, 2>>}
    /\ \E i \in 1..Len(events) :
          /\ events[i].event_type.type = "Arrival"
          /\ events[i].node_id = 2
          /\ events[i].time = hist.last.event.time + DEFAULT_LATENCY_US

\* The k-th command of the handler this step has run was dropped
CmdDropped(k) ==
    /\ CrossNode(k)
    /\ \E i \in 1..Len(hist'.last.dropped) :
          hist'.last.dropped[i] = hist'.last.cmds[k].event_type.request_id

\* The direction from a to b of the link the step has used for the pair
DirectedEdge(a, b) ==
    IF a < b THEN links'[<<a, b>>].min_to_max ELSE links'[<<b, a>>].max_to_min

\* C15: a cross-node Arrival or Response from a to b that is not dropped is
\* enqueued at now + cmd.delay + latency_us + j with 0 <= j <= jitter_us of
\* the a-to-b direction of the link (min_to_max when a < b, else
\* max_to_min); every other command is enqueued at now + cmd.delay.
C15_DirectionalLatency ==
    [][IsStep =>
         \A k \in 1..Len(hist'.last.cmds) :
            LET c == hist'.last.cmds[k]
                now == HeapPeek(events).time
                edge == DirectedEdge(HeapPeek(events).node_id, c.node_id)
            IN  IF CrossNode(k)
                THEN ~CmdDropped(k) =>
                        \E j \in 0..edge.jitter_us :
                            EnqueuedAt(k, now + c.delay + edge.latency_us + j)
                ELSE EnqueuedAt(k, now + c.delay)]_vars

\* C15 witness: the Client's Arrival has crossed the link 1-2 in the
\* direction 1 to 2, which has jitter 500 while the opposite direction has
\* none, and is enqueued at now + 10 000 + 500; the tick of the same step is
\* enqueued for the Client itself.
C15_Witness ==
    /\ Stepped
    /\ hist.last.event.event_type.type = "GenerateNext"
    /\ links[<<1, 2>>].min_to_max.jitter_us = 500
    /\ links[<<1, 2>>].max_to_min.jitter_us = 0
    /\ Len(hist.last.cmds) = 2
    /\ \E i \in 1..Len(events) :
          /\ events[i].event_type = hist.last.cmds[2].event_type
          /\ events[i].node_id = 2
          /\ events[i].time = hist.last.event.time + DEFAULT_LATENCY_US + 500
    /\ \E i \in 1..Len(events) :
          /\ events[i].event_type = hist.last.cmds[1].event_type
          /\ events[i].node_id = 1
          /\ events[i].time = hist.last.event.time + hist.last.cmds[1].delay

\* The k-th command of the handler this step has run is not in the queue
NotEnqueued(k) ==
    \A e \in NewEvents :
        ~(/\ e.node_id = hist'.last.cmds[k].node_id
          /\ e.event_type = hist'.last.cmds[k].event_type)

\* C16: a dropped command is not enqueued and failure_count grows by
\* exactly 1 in that step; on an edge of packet loss rate 0 no command is
\* dropped, on an edge of rate 1 every cross-node Arrival or Response is.
C16_PacketLoss ==
    [][IsStep =>
         \A k \in 1..Len(hist'.last.cmds) :
            CrossNode(k) =>
                LET edge == DirectedEdge(HeapPeek(events).node_id,
                                         hist'.last.cmds[k].node_id)
                IN  /\ CmdDropped(k) =>
                          /\ NotEnqueued(k)
                          /\ failure_count' = failure_count + 1
                          /\ success_count' = success_count
                    /\ ~CmdDropped(k) => ~NotEnqueued(k)
                    /\ edge.packet_loss_rate = 0 => ~CmdDropped(k)
                    /\ edge.packet_loss_rate = 100 => CmdDropped(k)]_vars

\* C16 witness: the LB has forwarded an Arrival to Server 5 over the
\* direction 2 to 5, whose packet loss rate is 1: the Arrival was dropped,
\* is not in the queue, and the failure is counted.
C16_Witness ==
    /\ Stepped
    /\ hist.last.event.node_id = 2
    /\ Len(hist.last.cmds) = 1
    /\ hist.last.cmds[1].node_id = 5
    /\ hist.last.cmds[1].event_type.type = "Arrival"
    /\ links[<<2, 5>>].min_to_max.packet_loss_rate = 100
    /\ hist.last.dropped = <<hist.last.cmds[1].event_type.request_id>>
    /\ failure_count >= 1
    /\ \A i \in 1..Len(events) : events[i].node_id # 5

\* C17: a GenerateNext whose generation_id differs from the Client's
\* config.generation_id, or that reaches an unhealthy Client, produces no
\* command, enqueues nothing and leaves request_counter as it is: the tick
\* chain of an old generation ends there.
C17_StaleTickIgnored ==
    [][(/\ IsStep
        /\ HeapPeek(events).event_type.type = "GenerateNext"
        /\ HeapPeek(events).node_id \in DOMAIN clients
        /\ LET c == clients[HeapPeek(events).node_id]
           IN  \/ ~c.healthy
               \/ HeapPeek(events).event_type.generation_id
                      # c.config.generation_id)
       => /\ hist'.last.cmds = <<>>
          /\ NewEvents = {}
          /\ clients'[HeapPeek(events).node_id].request_counter
                = clients[HeapPeek(events).node_id].request_counter]_vars

\* C17 witness: after a config change has raised generation_id, the tick
\* of the old generation was popped and answered with no command, while the
\* Client is healthy and has issued a request of the new generation.
C17_Witness ==
    /\ Stepped
    /\ hist.last.event.event_type.type = "GenerateNext"
    /\ hist.last.event.node_id = 1
    /\ 1 \in DOMAIN clients
    /\ clients[1].healthy
    /\ hist.last.event.event_type.generation_id < clients[1].config.generation_id
    /\ hist.last.cmds = <<>>
    /\ clients[1].request_counter >= 2

\* C18: applying a new valid config to a LoadBalancer makes it unhealthy at
\* once and returns a command for the LoadBalancer itself that restores its
\* health later (about 500 ms).
C18_MaintenanceDowntime ==
    [][(hist'.ops = hist.ops + 1 /\ hist'.last.op = "lb_config")
       => \A id \in DOMAIN lbs :
             lbs'[id].config # lbs[id].config
                => /\ ~lbs'[id].is_healthy
                   /\ \E e \in NewEvents : e.node_id = id /\ e.time > time]_vars

C20_RemovedNode ==
    [][/\ (hist'.ops = hist.ops + 1 /\ hist'.last.op = "remove_node")
           => /\ Cardinality(NodeIds \ (DOMAIN clients' \cup DOMAIN servers'
                                            \cup DOMAIN lbs')) = 1
              /\ \A id \in NodeIds \ (DOMAIN clients' \cup DOMAIN servers'
                                          \cup DOMAIN lbs') :
                    /\ \A i \in DOMAIN clients' : clients'[i].target_id # id
                    /\ \A i \in DOMAIN servers' : servers'[i].next_hop # id
                    /\ \A i \in DOMAIN lbs' : ~Contains(lbs'[i].targets, id)
                    /\ \A k \in DOMAIN links' : k[1] # id /\ k[2] # id
       /\ (IsStep /\ HeapPeek(events).node_id \notin NodeIds)
           => /\ NewEvents = {}
              /\ hist'.last.cmds = <<>>
              /\ clients' = clients
              /\ servers' = servers
              /\ lbs' = lbs]_vars

\* C20 witness: Server 3 was removed while an Arrival for it was in the
\* queue; a step() has popped that Arrival and produced no command; the
\* LoadBalancer lists Server 4 only and no link has the end 3.
C20_Witness ==
    /\ Stepped
    /\ hist.last.event.node_id = 3
    /\ hist.last.event.event_type.type = "Arrival"
    /\ 3 \notin NodeIds
    /\ hist.last.cmds = <<>>
    /\ 2 \in DOMAIN lbs
    /\ lbs[2].targets = <<4>>
    /\ \A k \in DOMAIN links : k[1] # 3 /\ k[2] # 3

\* C21: reset_stats() sets success_count and failure_count to 0, empties
\* the latency ring and the histogram, and leaves time, the event queue,
\* the components and the link table as they are.
C21_ResetStatsFrame ==
    [][(hist'.ops = hist.ops + 1 /\ hist'.last.op = "reset_stats")
       => /\ success_count' = 0
          /\ failure_count' = 0
          /\ latencies' = <<>>
          /\ histogram' = <<>>
          /\ UNCHANGED <<time, events, clients, servers, lbs, links>>]_vars

\* C21 witness: reset_stats() was called after a request had been counted
\* as a success and its latency recorded, while the LoadBalancer was
\* tracking the next request: the counters and the latencies are empty and
\* the LoadBalancer's table is as it was.
C21_Witness ==
    /\ hist.last.op = "reset_stats"
    /\ DOMAIN hist.counted # {}
    /\ success_count = 0
    /\ failure_count = 0
    /\ latencies = <<>>
    /\ histogram = <<>>
    /\ DOMAIN lbs[2].state_table # {}
    /\ events # <<>>

\* C22: the backends one LoadBalancer tries for one request id are
\* pairwise distinct, so they are at most min(max_retries + 1, number of
\* targets).
C22_AttemptsDistinct ==
    \A key \in DOMAIN hist.attempts :
        LET a == hist.attempts[key]
        IN  /\ \A i, j \in 1..Len(a) : i # j => a[i] # a[j]
            /\ key[1] \in DOMAIN lbs =>
                  /\ Len(a) <= lbs[key[1]].config.max_retries + 1
                  /\ Len(a) <= Len(lbs[key[1]].targets)

\* C22 witness: the LoadBalancer with max_retries 2 and three targets has
\* sent one request to Server 3, then to Server 4, then to Server 5.
C22_Witness ==
    \E key \in DOMAIN hist.attempts :
        /\ key[1] = 2
        /\ hist.attempts[key] = <<3, 4, 5>>
        /\ lbs[2].total_retries = 2

\* The last step was an LB's handling of a failure Response that it
\* answered with a retry: an Arrival for a target
IsRetry ==
    /\ IsStep
    /\ HeapPeek(events).node_id \in DOMAIN lbs
    /\ HeapPeek(events).event_type.type = "Response"
    /\ Len(hist'.last.cmds) = 1
    /\ hist'.last.cmds[1].event_type.type = "Arrival"

\* C23: the delay of a retry follows retry_strategy: 0 for Immediate;
\* retry_backoff_ms * 1000 us plus a jitter of at most 10% (at least 1 us)
\* for Constant; for Exponential the same with the base
\* retry_backoff_ms * 2^(retry_count - 1) ms, retry_count being the count
\* after the increment.
C23_RetryDelayFollowsStrategy ==
    [][IsRetry =>
         LET id == HeapPeek(events).node_id
             rid == HeapPeek(events).event_type.request_id
             config == lbs[id].config
             delay == hist'.last.cmds[1].delay
             retry_count == lbs'[id].in_flight_retries[rid].retry_count
             base == IF config.retry_strategy = "Exponential"
                     THEN config.retry_backoff_ms * 1000 * 2^(retry_count - 1)
                     ELSE config.retry_backoff_ms * 1000
         IN  IF config.retry_strategy = "Immediate" THEN delay = 0
             ELSE /\ base <= delay
                  /\ delay <= base + (IF base \div 10 > 1
                                       THEN base \div 10 ELSE 1)]_vars

\* C24: behind a RoundRobin LoadBalancer with max_retries >= 1, a failing
\* BadServer 3 and a GoodServer 4 on lossless links, while a retry token is
\* available: the failure Response of a request first sent to Server 3 is
\* answered with a retry, an Arrival for Server 4 whose path is the failed
\* attempt's path, ending with the LoadBalancer, and that counts in
\* total_retries; and every terminal Response that reaches the Client
\* reports success.
C24_RetryOnFailure ==
    [][IsStep =>
         LET event == HeapPeek(events)
             ev == event.event_type
         IN  /\ (/\ event.node_id = 2
                 /\ ev.type = "Response"
                 /\ ~ev.success
                 /\ GetOr(hist.attempts, <<2, ev.request_id>>, <<>>) = <<3>>
                 /\ lbs[2].retry_token_balance >= RETRY_COST_TENTHS)
                => /\ Len(hist'.last.cmds) = 1
                   /\ hist'.last.cmds[1].node_id = 4
                   /\ hist'.last.cmds[1].event_type
                          = Arrival(ev.request_id, ev.path, ev.start_time,
                                    ev.timeout)
                   /\ Last(ev.path) = 2
                   /\ lbs'[2].total_retries > 0
             /\ (event.node_id = 1 /\ ev.type = "Response")
                => /\ ev.success
                   /\ hist'.last.accounting = "success"]_vars

\* C24 witness: a request that was sent to Server 3 and then retried on
\* Server 4 has just reached the Client as a terminal Response reporting
\* success, and the LoadBalancer has counted the retry.
C24_Witness ==
    /\ Stepped
    /\ hist.last.event.node_id = 1
    /\ hist.last.event.event_type.type = "Response"
    /\ hist.last.event.event_type.success
    /\ Len(hist.last.event.event_type.path) = 1
    /\ GetOr(hist.attempts, <<2, hist.last.event.event_type.request_id>>,
             <<>>) = <<3, 4>>
    /\ lbs[2].total_retries > 0

\* The tokens a LoadBalancer has spent on retries and the tokens it still
\* holds are together at most the initial balance plus retry_budget_ratio
\* for each Arrival it has handled (in tenths of a token), and it holds no
\* negative balance: total_retries alone is within that sum
WithinEarnedBudget ==
    \A id \in DOMAIN lbs :
        LET earned == INITIAL_TOKENS_TENTHS
                      + lbs[id].config.retry_budget_ratio
                        * GetOr(hist.arrivals, id, 0)
        IN  /\ lbs[id].retry_token_balance >= 0
            /\ lbs[id].total_retries * RETRY_COST_TENTHS
               + lbs[id].retry_token_balance <= earned
            /\ lbs[id].total_retries * RETRY_COST_TENTHS <= earned

\* C25: total_retries never exceeds the initial token balance plus
\* retry_budget_ratio times the number of Arrivals the LoadBalancer has
\* handled.  A retry is launched only with a balance of at least one token
\* and takes exactly one; a failure Response that is not retried (no
\* target, no budget, no attempt left) takes none; the balance grows only
\* when an Arrival is handled, by at most retry_budget_ratio.
C25_RetryBudget ==
    /\ WithinEarnedBudget
    /\ [][/\ WithinEarnedBudget'
          /\ \A id \in DOMAIN lbs \cap DOMAIN lbs' :
               LET balance == lbs[id].retry_token_balance
                   here == IsStep /\ HeapPeek(events).node_id = id
                   arrival == here
                              /\ HeapPeek(events).event_type.type = "Arrival"
               IN  /\ (here /\ IsRetry)
                      => /\ balance >= RETRY_COST_TENTHS
                         /\ lbs'[id].retry_token_balance
                                = balance - RETRY_COST_TENTHS
                         /\ lbs'[id].total_retries
                                = lbs[id].total_retries + 1
                   /\ ~(here /\ IsRetry)
                      => lbs'[id].total_retries = lbs[id].total_retries
                   /\ ~(here /\ IsRetry) /\ ~arrival
                      => lbs'[id].retry_token_balance = balance
                   /\ arrival
                      => lbs'[id].retry_token_balance
                            <= balance + lbs[id].config.retry_budget_ratio
         ]_vars

\* C25 witness: with a token left and an attempt left, the LoadBalancer
\* with targets 3, 4 and the unknown 9 has just answered the failure of the
\* retry on Server 4 by passing the failure upstream, Servers 3 and 4
\* having failed the request: the balance stays what the one launched
\* retry left of it.
C25_Witness ==
    /\ Stepped
    /\ 2 \in DOMAIN lbs
    /\ hist.last.event.node_id = 2
    /\ hist.last.event.event_type.type = "Response"
    /\ ~hist.last.event.event_type.success
    /\ lbs[2].targets = <<3, 4, 9>>
    /\ GetOr(hist.attempts, <<2, hist.last.event.event_type.request_id>>,
             <<>>) = <<3, 4>>
    /\ hist.last.cmds # <<>>
    /\ hist.last.cmds[1].event_type.type = "Response"
    /\ lbs[2].retry_token_balance >= RETRY_COST_TENTHS
    /\ lbs[2].total_retries >= 1

\* C26: every Response in the queue is addressed to the last element of
\* its path, and a Response whose path has one element is addressed to the
\* Client that emitted the request, the node the request id names as its
\* origin.
C26_ResponseFollowsPath ==
    \A i \in 1..Len(events) :
        LET e == events[i]
            ev == e.event_type
        IN  ev.type = "Response"
            => /\ ev.path # <<>>
               /\ e.node_id = Last(ev.path)
               /\ Len(ev.path) = 1
                  => /\ ev.path[1] = ev.request_id[1]
                     /\ ev.path[1] \in DOMAIN clients

\* C26 witness: the queue holds a Response on its way through the
\* LoadBalancer, with the path <<Client, LoadBalancer>>, and a terminal
\* Response for Client 1 with the path <<1>>.
C26_Witness ==
    /\ \E i \in 1..Len(events) :
          /\ events[i].event_type.type = "Response"
          /\ events[i].event_type.path = <<1, 2>>
          /\ events[i].node_id = 2
    /\ \E i \in 1..Len(events) :
          /\ events[i].event_type.type = "Response"
          /\ events[i].event_type.path = <<1>>
          /\ events[i].node_id = 1

NoHealthyTarget(id) ==
    \A i \in 1..Len(lbs[id].targets) :
        \/ lbs[id].targets[i] \notin NodeIds
        \/ ~HealthBuffer[lbs[id].targets[i]]

\* C29: an Arrival that reaches a LoadBalancer that is unhealthy or has no
\* healthy target is answered with exactly one Response, success = false,
\* for the last node of the incoming path and with that path unchanged;
\* state_table and active_loads stay as they are, and the token balance
\* is refilled as for any Arrival: min(balance + retry_budget_ratio,
\* retry_budget_max_tokens).
C29_RejectedArrival ==
    [][\A id \in DOMAIN lbs :
         LET event == HeapPeek(events)
             ev == event.event_type
             lb == lbs[id]
             added == lb.retry_token_balance + lb.config.retry_budget_ratio
         IN  (/\ IsStep
              /\ event.node_id = id
              /\ ev.type = "Arrival"
              /\ ~lb.is_healthy \/ NoHealthyTarget(id))
             => /\ hist'.last.cmds
                      = <<ScheduleCmd(hist'.last.cmds[1].delay, Last(ev.path),
                             Response(ev.request_id, ev.path, ev.start_time,
                                      FALSE, ev.timeout))>>
                /\ lbs'[id].state_table = lb.state_table
                /\ lbs'[id].active_loads = lb.active_loads
                /\ lbs'[id].in_flight_retries = lb.in_flight_retries
                /\ lbs'[id].retry_token_balance
                      = (IF added > lb.config.retry_budget_max_tokens
                         THEN lb.config.retry_budget_max_tokens ELSE added)
      ]_vars

\* C29 witness: the healthy LoadBalancer has just rejected an Arrival,
\* and the Arrival has changed its token balance: its targets are the
\* killed Server 3 and the unknown 9.
C29_Witness ==
    /\ Stepped
    /\ hist.last.event.node_id = 2
    /\ hist.last.event.event_type.type = "Arrival"
    /\ hist.last.cmds # <<>>
    /\ hist.last.cmds[1].event_type.type = "Response"
    /\ lbs[2].is_healthy
    /\ lbs[2].targets = <<3, 9>>
    /\ ~servers[3].healthy
    /\ lbs[2].retry_token_balance < INITIAL_TOKENS_TENTHS

\* is_healthy() of the component id, FALSE when no component has the id
ComponentHealthy(id) ==
    \/ id \in DOMAIN clients /\ clients[id].healthy
    \/ id \in DOMAIN servers /\ servers[id].healthy
    \/ id \in DOMAIN lbs /\ lbs[id].is_healthy

\* C30: every Arrival a LoadBalancer emits in a step, first attempt or
\* retry, is for one of its targets that is a registered component and was
\* healthy when the step began; an id that is no component counts as
\* unhealthy.
C30_ForwardsToHealthyOnly ==
    [][(IsStep /\ HeapPeek(events).node_id \in DOMAIN lbs)
       => \A k \in 1..Len(hist'.last.cmds) :
            LET cmd == hist'.last.cmds[k]
            IN  cmd.event_type.type = "Arrival"
                => /\ cmd.node_id \in NodeIds
                   /\ ComponentHealthy(cmd.node_id)
                   /\ Contains(lbs[HeapPeek(events).node_id].targets,
                               cmd.node_id)
      ]_vars

\* C30 witness: the LoadBalancer has just sent an Arrival to Server 4
\* although the killed Server 3 comes first among its targets and carries
\* less load.
C30_Witness ==
    /\ Stepped
    /\ hist.last.event.node_id = 2
    /\ hist.last.cmds # <<>>
    /\ hist.last.cmds[1].event_type.type = "Arrival"
    /\ hist.last.cmds[1].node_id = 4
    /\ lbs[2].targets[1] = 3
    /\ ~servers[3].healthy
    /\ GetOr(lbs[2].active_loads, 3, 0) < GetOr(lbs[2].active_loads, 4, 0)

\* The request is on its way: an event of the queue carries it, or a
\* Server holds it in its queue
InFlight(rid) ==
    \/ \E i \in 1..Len(events) :
          /\ events[i].event_type.type # "GenerateNext"
          /\ events[i].event_type.request_id = rid
    \/ \E id \in DOMAIN servers : \E i \in 1..Len(servers[id].queue) :
          servers[id].queue[i].request_id = rid

\* Every request the Clients emitted has been answered, and no Server
\* queue and no LoadBalancer table holds a request
AllAnswered ==
    /\ hist.emitted \subseteq hist.answered
    /\ \A id \in DOMAIN servers :
          servers[id].queue = <<>> /\ servers[id].active_threads = 0
    /\ \A id \in DOMAIN lbs :
          /\ DOMAIN lbs[id].state_table = {}
          /\ DOMAIN lbs[id].in_flight_retries = {}

\* The ProcessComplete events queued for the Server: its busy threads
Processing(id) ==
    {i \in 1..Len(events) :
        /\ events[i].node_id = id
        /\ events[i].event_type.type = "ProcessComplete"}

\* C28: on lossless links, through the LoadBalancer and the chain of
\* Servers with one thread each, every request emitted ends as a Response
\* of path length 1 dispatched to its Client if step() keeps being called.
\* No request is lost on the way: one emitted and not yet answered is
\* carried by an event of the queue or waits in a Server queue, and so
\* is every request a LoadBalancer tracks.  No request waits in vain: a
\* Server with a request in its queue has as many ProcessComplete events
\* queued as it has busy threads, at least one, and each of them takes the
\* next request from the queue.  So when step() finds no event left,
\* every request emitted has been answered and the Server queues and
\* LoadBalancer tables are empty.
C28_EveryRequestAnswered ==
    /\ \A rid \in hist.emitted \ hist.answered : InFlight(rid)
    /\ \A id \in DOMAIN lbs :
          \A rid \in DOMAIN lbs[id].state_table
                      \cup DOMAIN lbs[id].in_flight_retries :
              InFlight(rid) /\ rid \notin hist.answered
    /\ \A id \in DOMAIN servers :
          /\ servers[id].active_threads = Cardinality(Processing(id))
          /\ servers[id].queue # <<>> => servers[id].active_threads >= 1
    /\ events = <<>> => AllAnswered

\* C28 as a temporal formula, under the fairness of SpecProxyChain: once
\* the Clients have stopped emitting, every request emitted is eventually
\* answered and the queues and tables are empty.
EventuallyAnswered == LoadStopped ~> AllAnswered

\* C28 witness: the Client was killed while Server 3, with its one thread,
\* held requests in its queue; the calls of step() that followed have
\* emptied the event queue, and each of the requests emitted, more than
\* two, has come back to the Client through Server 4, Server 3 and the
\* LoadBalancer and has been counted as a success.
C28_Witness ==
    /\ LoadStopped
    /\ events = <<>>
    /\ AllAnswered
    /\ Cardinality(hist.emitted) > 2
    /\ success_count = Cardinality(hist.emitted)
    /\ hist.steps > MaxSteps

\* The position of a target in the order of registration
IndexOf(ts, t) == CHOOSE i \in 1..Len(ts) : ts[i] = t /\ \A j \in 1..(i - 1) : ts[j] # t

\* C31: under LeastConnections the target an LB sends an Arrival to, as a
\* first attempt or as a retry, is healthy and not excluded (a retry
\* excludes the targets already tried), its load is minimal among those
\* targets, and it is the first of them in registration order among the
\* ones of that load.  The loads are the ones the selection sees: for a
\* retry, after the failed target's load was decremented.
C31_LeastConnections ==
    [][\A id \in DOMAIN lbs :
         (/\ IsStep
          /\ HeapPeek(events).node_id = id
          /\ lbs[id].config.strategy = "LeastConnections"
          /\ hist'.last.cmds # <<>>
          /\ hist'.last.cmds[1].event_type.type = "Arrival")
         => LET ev == HeapPeek(events).event_type
                t == hist'.last.cmds[1].node_id
                ts == lbs[id].targets
                retry == ev.type = "Response"
                excluded == IF retry
                            THEN GetOr(hist.attempts, <<id, ev.request_id>>, <<>>)
                            ELSE <<>>
                failed == lbs[id].state_table[ev.request_id]
                load(u) == IF retry /\ u = failed
                           THEN SatSub(GetOr(lbs[id].active_loads, u, 0), 1)
                           ELSE GetOr(lbs[id].active_loads, u, 0)
                eligible == {u \in {ts[i] : i \in 1..Len(ts)} :
                               /\ ComponentHealthy(u)
                               /\ ~Contains(excluded, u)}
            IN  /\ t \in eligible
                /\ \A u \in eligible :
                      /\ load(t) <= load(u)
                      /\ load(u) = load(t) => IndexOf(ts, t) <= IndexOf(ts, u)
      ]_vars

\* C31 witness: the LoadBalancer has just sent an Arrival to its second
\* target although the first is healthy, because the first carried more
\* load; an earlier Arrival went to the first target, the loads being
\* equal then.
C31_Witness ==
    /\ Stepped
    /\ 2 \in DOMAIN lbs
    /\ hist.last.event.node_id = 2
    /\ hist.last.event.event_type.type = "Arrival"
    /\ hist.last.cmds # <<>>
    /\ hist.last.cmds[1].event_type.type = "Arrival"
    /\ hist.last.cmds[1].node_id = lbs[2].targets[2]
    /\ servers[lbs[2].targets[1]].healthy
    /\ GetOr(lbs[2].active_loads, lbs[2].targets[1], 0) = 1
    /\ GetOr(lbs[2].active_loads, lbs[2].targets[2], 0) = 1
    /\ GetOr(hist.forwarded, <<2, lbs[2].targets[1]>>, 0) = 1

\* C32: an Arrival at a healthy Server that draws no failure is admitted
\* when active_threads < concurrency (one more thread, one ProcessComplete
\* scheduled for the Server itself); else it is appended to the queue,
\* with no command, when the queue is shorter than backlog_limit; else it
\* is rejected: errors + 1 and one failure Response for the last node of
\* the path.  A failure can be drawn only with failure_probability > 0 and
\* is a rejection too.  An unhealthy Server rejects every Arrival.  A
\* rejection leaves active_threads and the queue as they are.
C32_ArrivalOutcome ==
    [][\A id \in DOMAIN servers :
         (IsStep /\ HeapPeek(events).node_id = id
          /\ HeapPeek(events).event_type.type = "Arrival")
         => LET ev == HeapPeek(events).event_type
                s == servers[id]
                t == servers'[id]
                cmds == hist'.last.cmds
                rejected ==
                    /\ t = [s EXCEPT !.errors = s.errors + 1]
                    /\ cmds = <<ScheduleCmd(0, Last(ev.path),
                                   Response(ev.request_id, ev.path,
                                            ev.start_time, FALSE, ev.timeout))>>
                admitted ==
                    /\ t = [s EXCEPT !.active_threads = s.active_threads + 1]
                    /\ Len(cmds) = 1
                    /\ cmds[1].node_id = id
                    /\ cmds[1].event_type
                          = ProcessComplete(ev.request_id, TRUE, ev.start_time,
                                            ev.path, ev.timeout)
                queued ==
                    /\ t = [s EXCEPT !.queue =
                               Append(s.queue,
                                      [request_id |-> ev.request_id,
                                       path |-> ev.path,
                                       start_time |-> ev.start_time,
                                       timeout |-> ev.timeout])]
                    /\ cmds = <<>>
                expected ==
                    IF s.active_threads < s.config.concurrency THEN admitted
                    ELSE IF Len(s.queue) < s.config.backlog_limit THEN queued
                    ELSE rejected
            IN  IF ~s.healthy THEN rejected
                ELSE IF s.config.failure_probability = 0 THEN expected
                ELSE expected \/ rejected
      ]_vars

\* C32 witness: the healthy Server 5, with two threads and a backlog of
\* one, has admitted two requests, queued the third and has just rejected
\* the fourth.
C32_Witness ==
    /\ Stepped
    /\ hist.last.event.node_id = 5
    /\ hist.last.event.event_type.type = "Arrival"
    /\ servers[5].healthy
    /\ servers[5].config = ServerConfig(30, 2, 1, 0, 5)
    /\ servers[5].active_threads = 2
    /\ Len(servers[5].queue) = 1
    /\ servers[5].errors = 1
    /\ hist.last.cmds # <<>>
    /\ hist.last.cmds[1].event_type.type = "Response"

\* C33: a ProcessComplete at a Server produces exactly one outcome for the
\* finished request: an Arrival for next_hop with the Server appended to
\* the path when the request succeeded and next_hop is set, otherwise a
\* Response for the last node of the path with the path unchanged.  Then
\* the oldest queued request, if any, is started by a ProcessComplete the
\* Server schedules for itself, with active_threads unchanged; with an
\* empty queue active_threads goes down by one, never below 0.
C33_ProcessCompleteOutcome ==
    [][\A id \in DOMAIN servers :
         (IsStep /\ HeapPeek(events).node_id = id
          /\ HeapPeek(events).event_type.type = "ProcessComplete")
         => LET ev == HeapPeek(events).event_type
                s == servers[id]
                t == servers'[id]
                cmds == hist'.last.cmds
                outcome ==
                    IF ev.success /\ s.next_hop # None
                    THEN ScheduleCmd(0, s.next_hop,
                             Arrival(ev.request_id, Append(ev.path, id),
                                     ev.start_time, ev.timeout))
                    ELSE ScheduleCmd(0, Last(ev.path),
                             Response(ev.request_id, ev.path, ev.start_time,
                                      ev.success, ev.timeout))
            IN  /\ cmds # <<>>
                /\ cmds[1] = outcome
                /\ IF s.queue # <<>>
                   THEN /\ Len(cmds) = 2
                        /\ cmds[2].node_id = id
                        /\ cmds[2].event_type
                              = ProcessComplete(s.queue[1].request_id, TRUE,
                                    s.queue[1].start_time, s.queue[1].path,
                                    s.queue[1].timeout)
                        /\ t = [s EXCEPT !.queue = Tail(s.queue)]
                   ELSE /\ Len(cmds) = 1
                        /\ t = [s EXCEPT !.active_threads =
                                   IF s.active_threads > 0
                                   THEN s.active_threads - 1 ELSE 0]
      ]_vars

\* C33 witness: the proxy Server 3 has finished a request, passed it to
\* its next hop 4 as an Arrival, and started the older of the requests
\* still waiting in its queue.
C33_Witness ==
    /\ Stepped
    /\ hist.last.event.node_id = 3
    /\ hist.last.event.event_type.type = "ProcessComplete"
    /\ Len(hist.last.cmds) = 2
    /\ hist.last.cmds[1].node_id = 4
    /\ hist.last.cmds[1].event_type.type = "Arrival"
    /\ hist.last.cmds[2].node_id = 3
    /\ hist.last.cmds[2].event_type.type = "ProcessComplete"
    /\ Len(servers[3].queue) >= 1
    /\ servers[3].active_threads = 1

\* The tick a Client re-schedules on a valid GenerateNext has a delay of
\* the base interval times a jitter in [0.95, 1.05)
TickDelayFrom(id, base) ==
    (IsStep /\ HeapPeek(events).node_id = id
     /\ HeapPeek(events).event_type.type = "GenerateNext"
     /\ clients[id].healthy
     /\ HeapPeek(events).event_type.generation_id
          = clients[id].config.generation_id)
    => LET cmds == hist'.last.cmds
       IN  /\ cmds # <<>>
           /\ cmds[1].node_id = id
           /\ cmds[1].event_type
                 = GenerateNext(clients[id].config.generation_id)
           /\ cmds[1].delay >= (base \div 100) * 95
           /\ cmds[1].delay <= (base \div 100 + 1) * 105

\* C34 (as stated): with an arrival_rate that is zero or negative the base
\* interval of the re-scheduled tick is 1 second, 1 000 000 us; with a
\* positive rate it is floor(1 000 000 / arrival_rate) us.
C34_IdleIntervalOneSecond ==
    [][\A id \in DOMAIN clients :
         TickDelayFrom(id, IF clients[id].config.arrival_rate > 0
                           THEN 1000000 \div clients[id].config.arrival_rate
                           ELSE 1000000)]_vars

\* C34 (amended): with an arrival_rate that is zero or negative the base
\* interval of the re-scheduled tick is 1 000 000 000 us, 1000 seconds of
\* virtual time; with a positive rate it is floor(1 000 000 / arrival_rate)
\* us.
C34_TickInterval ==
    [][\A id \in DOMAIN clients :
         TickDelayFrom(id, IF clients[id].config.arrival_rate > 0
                           THEN 1000000 \div clients[id].config.arrival_rate
                           ELSE 1000000000)]_vars

\* C34 witness: Client 1, whose rate is not positive, has ticked and its
\* next tick is 950 seconds away, and Client 2 has ticked at 3 requests per
\* second with the next tick 316 666 us away.
C34_Witness ==
    /\ clients[1].config.arrival_rate <= 0
    /\ clients[1].request_counter = 1
    /\ \E i \in 1..Len(events) :
         /\ events[i].node_id = 1
         /\ events[i].event_type.type = "GenerateNext"
         /\ events[i].time = 950000000
    /\ Stepped
    /\ hist.last.event.node_id = 2
    /\ hist.last.event.event_type.type = "GenerateNext"
    /\ hist.last.cmds[1].delay = 316666

\* delay is service_time ms * jitter * (1 + (threads / concurrency)^2 *
\* saturation_penalty), cut to whole microseconds, for a jitter in
\* [0.95, 1.05); saturation_penalty is in tenths
DelayFeelsLoad(delay, config, threads) ==
    LET cc == config.concurrency * config.concurrency
        num == 10 * cc + threads * threads * config.saturation_penalty
    IN  /\ (delay + 1) * cc > 95 * config.service_time * num
        /\ delay * cc < 105 * config.service_time * num

\* C35: the ProcessComplete of a request a Server admits directly is
\* service_time * 1000 * jitter * (1 + load_factor^2 * saturation_penalty)
\* us away, jitter in [0.95, 1.05), load_factor = active_threads /
\* concurrency after the admission increment.  With service_time 10 ms and
\* saturation_penalty 1.0 the delay is within 5% of 10 ms at load 0, of
\* 12.5 ms at load 0.5 and of 20 ms at load 1.0.
C35_ServiceDelay ==
    [][\A id \in DOMAIN servers :
         LET s == servers[id]
             t == servers'[id]
             cmds == hist'.last.cmds
             tenMs == s.config.service_time = 10
                      /\ s.config.saturation_penalty = 10
             Within(d, lo, hi) == lo <= d /\ d <= hi
         IN  /\ (IsStep /\ HeapPeek(events).node_id = id
                 /\ HeapPeek(events).event_type.type = "Arrival"
                 /\ t.active_threads = s.active_threads + 1)
                => /\ cmds # <<>>
                   /\ DelayFeelsLoad(cmds[1].delay, s.config, t.active_threads)
                   /\ t.active_threads >= 1
                   /\ (tenMs /\ 2 * t.active_threads = s.config.concurrency)
                        => Within(cmds[1].delay, 11875, 13125)
                   /\ (tenMs /\ t.active_threads = s.config.concurrency)
                        => Within(cmds[1].delay, 19000, 21000)
             /\ tenMs
                => \A j \in JitterPcts :
                     Within(CalculateProcessingDelay(j, s.config, 0),
                            9500, 10500)
      ]_vars

\* C35 witness: Server 3 (10 ms, two threads, penalty 1.0) has admitted a
\* request at load 0.5 with a delay of 11 875 us and has just admitted a
\* second one at load 1.0 with a delay of 20 800 us.
C35_Witness ==
    /\ Stepped
    /\ hist.last.event.node_id = 3
    /\ hist.last.event.event_type.type = "Arrival"
    /\ servers[3].config = ServerConfig(10, 2, 50, 0, 10)
    /\ servers[3].active_threads = 2
    /\ hist.last.cmds[1].event_type.type = "ProcessComplete"
    /\ hist.last.cmds[1].delay = 20800
    /\ \E i \in 1..Len(events) :
         /\ events[i].node_id = 3
         /\ events[i].event_type.type = "ProcessComplete"
         /\ events[i].time = DEFAULT_LATENCY_US + 11875

\* The requests the LoadBalancer lb has in flight to the target t
TrackedAt(lb, t) == {r \in DOMAIN lb.state_table : lb.state_table[r] = t}

\* C36: for every LoadBalancer and every target t, active_loads[t] (0 when
\* absent) is the number of state_table entries whose value is t; every
\* Arrival, Response, retry, remove_target and reset_internal_stats keeps
\* it so.
C36_LoadsMatchTable ==
    \A id \in DOMAIN lbs :
        \A t \in DOMAIN lbs[id].active_loads
                  \cup {lbs[id].state_table[r] : r \in DOMAIN lbs[id].state_table} :
            GetOr(lbs[id].active_loads, t, 0)
                = Cardinality(TrackedAt(lbs[id], t))

\* C36 witness: LoadBalancer 2 has retried a request, a target it had sent
\* requests to has just been removed, and a request is in flight to one of
\* the two targets that are left.
C36_Witness ==
    /\ hist.last.op = "remove_node"
    /\ 2 \in DOMAIN lbs
    /\ Len(lbs[2].targets) = 2
    /\ lbs[2].total_retries >= 1
    /\ \E t \in DOMAIN lbs[2].active_loads : lbs[2].active_loads[t] >= 1
    /\ \E t \in {3, 4, 5} :
         /\ t \notin DOMAIN servers
         /\ GetOr(hist.forwarded, <<2, t>>, 0) >= 1

\* C37: every request in in_flight_retries is in state_table too, also
\* after the removal of a backend that has retries in flight, and once
\* the final Response of a request has passed the LoadBalancer no retry
\* state of it remains.
C37_RetryStateTracked ==
    /\ [](\A id \in DOMAIN lbs :
            DOMAIN lbs[id].in_flight_retries \subseteq DOMAIN lbs[id].state_table)
    /\ [][\A id \in DOMAIN lbs :
            (IsStep /\ HeapPeek(events).node_id = id
             /\ HeapPeek(events).event_type.type = "Response"
             /\ id \in DOMAIN lbs'
             /\ HeapPeek(events).event_type.request_id
                  \notin DOMAIN lbs'[id].state_table)
            => HeapPeek(events).event_type.request_id
                  \notin DOMAIN lbs'[id].in_flight_retries]_vars

\* C38: for every Server active_threads is the number of ProcessComplete
\* events pending for it in the event queue, so the requests in service
\* never exceed concurrency, also after reset_internal_stats() or a hot
\* change of concurrency while requests are in service.
C38_ThreadsMatchPending ==
    \A id \in DOMAIN servers :
        /\ servers[id].active_threads = Cardinality(Processing(id))
        /\ Cardinality(Processing(id)) <= servers[id].config.concurrency

\* C39: after remove_node(id) the link table holds no key that involves id
\* (no action of the model calls connect_node after construction); the
\* dispatch of events that were in flight does not create such a link
\* again.
C39_RemovedStaysUnlinked ==
    \A k \in DOMAIN links : k[1] \notin hist.removed /\ k[2] \notin hist.removed

\* The pending GenerateNext events of the Client id with generation g
PendingTicks(id, g) ==
    {i \in 1..Len(events) :
        /\ events[i].node_id = id
        /\ events[i].event_type.type = "GenerateNext"
        /\ events[i].event_type.generation_id = g}

====
